---- MODULE Spec2Model ----
(***************************************************************************)
(* Posting scheduler of catzuko-clipz: the posting gate (SafeAutoPoster,   *)
(* auto_poster.py), the automation loop (ContentAutomationSystem,          *)
(* automation_system.py) with its persisted clip queue, the generation     *)
(* pipeline's effect on the ready_to_post directories (main.py,            *)
(* youtube_monitor.py), the dashboard handlers that touch the same files   *)
(* (web_dashboard.py), the database modules (models.py, firebase_db.py,    *)
(* cloud_db.py), the affiliate link rotator (link_rotator.py), the queue   *)
(* file as JSON text, and the job scheduling of run().                     *)
(***************************************************************************)
EXTENDS Integers, Sequences, FiniteSets, TLC

\* ------------------------------------------------------------------ bounds
MaxDay == 2          \* calendar dates are 1..MaxDay
MaxVideos == 1       \* source videos the feed can ever offer
MaxStored == 2       \* videos whose clips an earlier run may have left queued
MaxQueue == 3        \* longest queue an earlier run may have left
NumDash == 1         \* dashboard manual-post requests that can be in flight
MaxCalls == 6        \* direct record_post calls per account and date (gate harness)
MaxLoops == 2        \* automation threads the dashboard can have started
MaxGen == 2          \* generation threads the dashboard can have started
MaxRows == 2         \* rows a table of the database can hold
MaxLinkCalls == 3    \* get_link calls followed
MaxCaption == 2      \* characters of a caption (queue document)
MaxJsonQueue == 2    \* clips of a queue written as a document
Horizon == 600       \* minutes of run() followed

\* -------------------------------------------------------- program constants
max_posts_per_day == 5

\* ------------------------------------------------------------ dictionaries
\* A Python dict / JSON object is a function whose DOMAIN is its key set.
EmptyDict == [k \in {} |-> 0]

SetKey(f, k, v) == [x \in (DOMAIN f) \cup {k} |-> IF x = k THEN v ELSE f[x]]

\* Reading a counter the way a reader of the history document does: a
\* missing account or date is zero.
CountOf(h, a, d) == IF a \in DOMAIN h /\ d \in DOMAIN h[a] THEN h[a][d] ELSE 0

\* ------------------------------------------------------------ posting gate
\* account_id = f"{platform}_{account_config['username']}"
AccountId(platform, account_config) == platform \o "_" \o account_config.username

\* The two "if ... not in ...: ... = {} / 0" insertions shared by should_post
\* and record_post.
EnsureToday(h, a, d) ==
    LET h1 == IF a \in DOMAIN h THEN h ELSE SetKey(h, a, EmptyDict)
    IN  IF d \in DOMAIN h1[a] THEN h1 ELSE SetKey(h1, a, SetKey(h1[a], d, 0))

\* self.post_history after should_post(account_id) has run.
should_post_history(h, a, d) == EnsureToday(h, a, d)

should_post_off_by_one(h, a, d) == EnsureToday(h, a, d)[a][d] <= max_posts_per_day

\* The value should_post(account_id) returns.
should_post(h, a, d) == EnsureToday(h, a, d)[a][d] < max_posts_per_day

record_post_twice(h, a, d) ==
    LET h2 == EnsureToday(h, a, d)
    IN  [h2 EXCEPT ![a] = [@ EXCEPT ![d] = @ + 2]]

\* self.post_history after record_post(account_id); the caller also writes
\* it to post_history.json (_save_history).
record_post(h, a, d) ==
    LET h2 == EnsureToday(h, a, d)
    IN  [h2 EXCEPT ![a] = [@ EXCEPT ![d] = @ + 1]]

KnownPlatforms == {"tiktok", "instagram", "youtube"}

PosterOutcomes == {"ok", "fail", "raise"}

\* ------------------------------------------------------------ configuration
\* accounts.json: platform -> list of {username, cookies_file}.  tiktok has
\* one account that was set up and one that was not; instagram is present
\* with no account; youtube is absent from the document.
acct1 == [username |-> "acct1", cookies_file |-> "cookies/tiktok_acct1.pkl"]

acct2 == [username |-> "acct2", cookies_file |-> "cookies/tiktok_acct2.pkl"]

accounts == [tiktok |-> <<acct1, acct2>>, instagram |-> <<>>]

\* Cookie files that exist on disk.
cookie_files == {"cookies/tiktok_acct1.pkl"}

NoAccount == [username |-> "", cookies_file |-> ""]

\* SafeAutoPoster instances: 0 is the automation loop's self.poster, 1..NumDash
\* are the instances manual_post constructs, one per request in flight.
LoopPoster == 0

Dash == 1..NumDash

Posters == {LoopPoster} \cup Dash

\* Automation loops: 0 is the one "python automation_system.py" runs in its
\* main thread, 1..MaxLoops are the threads start_automation creates.
CliLoop == 0

DashLoops == 1..MaxLoops

Loops == {CliLoop} \cup DashLoops

\* Threads run_generation creates.
GenThreads == 1..MaxGen

\* ------------------------------------------------------------------ clips
Videos == 1..MaxVideos

\* Directories _organize_clip copies a rendered clip into (TIKTOK_DIR,
\* INSTAGRAM_DIR).  The third copy goes to YOUTUBE_SHORTS_DIR, which no
\* operation modelled here reads, and is not tracked.
OrganizeDirs == {"tiktok", "instagram"}

\* Directories daily_content_generation scans, in this order.
ScanPlatforms == <<"tiktok", "instagram", "youtube">>

\* str(READY_TO_POST_DIR / platform / f"{clip_name}.mp4"); one clip per
\* video, named after the video.
VideoPath(dir, v) == [dir |-> dir, name |-> v]

NoClip == [video_path |-> VideoPath("", 0), caption |-> 0, platform |-> "", added_at |-> 0]

VARIABLES
    today,                 \* datetime.now().date()
    post_history,          \* SafeAutoPoster.post_history, per instance
    post_history_file,     \* post_history.json
    pws,                   \* per instance: the post_with_safety call in progress
    ev,                    \* the last gate call that returned, and what it did
    record_calls,          \* gate harness: record_post calls per account today
    enable_auto_posting,   \* ContentAutomationSystem.enable_auto_posting
    clips_queue,           \* ContentAutomationSystem.clips_queue
    clips_queue_file,      \* clips_queue.json
    files,                 \* video files present under ready_to_post/
    processed_videos,      \* the loop's YouTubeMonitor.processed_videos
    processed_videos_file, \* processed_videos.json
    cycle,                 \* the last hourly_posting firing
    posted,                \* video_paths the loop has posted successfully
    dropped,               \* video_paths the loop dropped for a missing file
    is_running,            \* web_dashboard.is_running
    automation,            \* per automation loop: where its run() stands
    generation,            \* per run_generation thread: where its body stands
    environ,               \* the flags and services the database modules found
    store,                 \* per backend: its clips, posts and settings tables
    db_call,               \* database harness: the last call and what it did
    manual,                \* per manual_post request: the id of its clip
    links,                 \* LinkRotator.links
    usage_history,         \* LinkRotator.usage_history
    link_calls,            \* the URLs the last get_link calls returned
    document,              \* the text of clips_queue.json
    reloaded,              \* what the last _load_clips_queue returned
    sched                  \* the schedule package's default scheduler

gateVars == <<today, post_history, post_history_file, pws, ev, record_calls>>

loopVars == <<enable_auto_posting, clips_queue, clips_queue_file, files,
              processed_videos, processed_videos_file, cycle, posted, dropped>>

ctlVars == <<is_running, automation, generation>>

dbVars == <<environ, store, db_call, manual>>

rotatorVars == <<links, usage_history, link_calls>>

jsonVars == <<document, reloaded>>

auxVars == <<dbVars, rotatorVars, jsonVars>>

schedVars == <<sched>>

vars == <<today, post_history, post_history_file, pws, ev, record_calls,
          enable_auto_posting, clips_queue, clips_queue_file, files,
          processed_videos, processed_videos_file, cycle, posted, dropped,
          is_running, automation, generation,
          environ, store, db_call, manual, links, usage_history, link_calls,
          document, reloaded, sched>>

\* A loop whose run() is inside "while True: schedule.run_pending()".
LoopAlive == \E l \in Loops : automation[l] = "running"

IdleCall == [pc |-> "idle", platform |-> "", account |-> NoAccount]

NoEvent == [op |-> "none", p |-> LoopPoster, account |-> "", platform |-> "",
            ret |-> FALSE, delay |-> FALSE, invoked |-> FALSE, day |-> 0]

NoCycle == [outcome |-> "none", clip |-> NoClip, account |-> NoAccount,
            before |-> <<>>, pops |-> 0, pws_calls |-> 0]

GateAccountIds == {AccountId("tiktok", acct1)}

\* ------------------------------------------------------------ the database
\* The three stores, in the documented order of preference.
Backends == <<"firebase", "supabase", "sqlite">>

\* The process environment the database modules read when they are imported:
\* the USE_FIREBASE and USE_CLOUD_DB flags, whether firebase-admin is
\* installed and its client initialises with the credentials found, and
\* whether supabase-py is installed, configured and create_client succeeds.
Environments == [use_firebase : BOOLEAN, firebase_ok : BOOLEAN,
                 use_cloud_db : BOOLEAN, supabase_ok : BOOLEAN]

\* No flag set: the local SQLite file is the only store.
DefaultEnvironment == [use_firebase |-> FALSE, firebase_ok |-> FALSE,
                       use_cloud_db |-> FALSE, supabase_ok |-> FALSE]

\* One store: the clips and posts tables as row lists (a row's id is its
\* position) and the settings table as a dict.  Timestamps are left out, and
\* so is the logs table, which no operation modelled here reads.
EmptyTables == [clips |-> <<>>, posts |-> <<>>, settings |-> EmptyDict]

\* clipfarm.db after init_db: the tables and the default setting rows.
SqliteTables ==
    [EmptyTables EXCEPT !.settings =
        [k \in {"auto_posting_enabled", "auto_posting_tiktok",
                "auto_posting_instagram", "auto_posting_youtube"} |-> "0"]]

FreshStore == [b \in {"firebase", "supabase", "sqlite"} |->
                 IF b = "sqlite" THEN SqliteTables ELSE EmptyTables]

\* A call of one of the five mutating operations; the fields an operation
\* does not take are left at their defaults.
DbCallOf(op) == [op |-> op, filename |-> 0, platform |-> "", id |-> 0, status |-> "",
                 error_message |-> "", key |-> "", value |-> "", account |-> "",
                 success |-> FALSE]

add_clip(filename, platform) ==
    [DbCallOf("add_clip") EXCEPT !.filename = filename, !.platform = platform]

update_clip_status(id, status) ==
    [DbCallOf("update_clip_status") EXCEPT !.id = id, !.status = status]

add_log(message) == [DbCallOf("add_log") EXCEPT !.value = message]

set_setting(key, value) == [DbCallOf("set_setting") EXCEPT !.key = key, !.value = value]

db_record_post(id, platform, account, success, error_message) ==
    [DbCallOf("record_post") EXCEPT !.id = id, !.platform = platform,
                                    !.account = account, !.success = success,
                                    !.error_message = error_message]

\* What a call on one store leaves: the store's tables and whether the call
\* raised.
Returned(t) == [tables |-> t, raised |-> FALSE]

Raised(t) == [tables |-> t, raised |-> TRUE]

ClipRow(c) == [filename |-> c.filename, platform |-> c.platform, status |-> "pending"]

PostRow(c) == [clip_id |-> c.id, platform |-> c.platform, account |-> c.account,
               success |-> c.success, error_message |-> c.error_message]

WithStatus(t, id, status) ==
    [t EXCEPT !.clips = [i \in DOMAIN @ |->
                           IF i = id THEN [@[i] EXCEPT !.status = status] ELSE @[i]]]

\* The status record_post gives the clip.
StatusAfterPost(success) == IF success THEN "posted" ELSE "failed"

\* Firestore, as models.py and FirebaseDatabase use it.  fail names the
\* request of the call that the service answers with an error (0: none):
\* document().set / add append a document, update raises NotFound for a
\* document that does not exist, set(merge=True) writes the setting.
FirestoreApply(t, c, fail) ==
    IF fail = 1 THEN Raised(t)
    ELSE CASE c.op = "add_clip" -> Returned([t EXCEPT !.clips = Append(@, ClipRow(c))])
           [] c.op = "update_clip_status" ->
                IF c.id \in DOMAIN t.clips THEN Returned(WithStatus(t, c.id, c.status))
                ELSE Raised(t)
           [] c.op = "add_log" -> Returned(t)
           [] c.op = "set_setting" ->
                Returned([t EXCEPT !.settings = SetKey(@, c.key, c.value)])
           [] c.op = "record_post" ->
                LET added == [t EXCEPT !.posts = Append(@, PostRow(c))]
                IN  IF fail = 2 \/ c.id \notin DOMAIN t.clips THEN Raised(added)
                    ELSE Returned(WithStatus(added, c.id, StatusAfterPost(c.success)))

\* Supabase, as CloudDatabase uses it: insert, update ... eq('id', clip_id)
\* (no row, no error) and upsert.
SupabaseApply(t, c, fail) ==
    IF fail = 1 THEN Raised(t)
    ELSE CASE c.op = "add_clip" -> Returned([t EXCEPT !.clips = Append(@, ClipRow(c))])
           [] c.op = "update_clip_status" -> Returned(WithStatus(t, c.id, c.status))
           [] c.op = "add_log" -> Returned(t)
           [] c.op = "set_setting" ->
                Returned([t EXCEPT !.settings = SetKey(@, c.key, c.value)])
           [] c.op = "record_post" ->
                LET added == [t EXCEPT !.posts = Append(@, PostRow(c))]
                IN  IF fail = 2 THEN Raised(added)
                    ELSE Returned(WithStatus(added, c.id, StatusAfterPost(c.success)))

\* A write through a sqlite3 connection of its own.  While another
\* connection of the process holds an uncommitted write, the statement waits
\* for the lock until the busy timeout and raises OperationalError
\* ("database is locked").
SqliteWrite(t, written, locked) == IF locked THEN Raised(t) ELSE Returned(written)

\* The SQLite code of models.py.  record_post inserts on its connection,
\* calls update_clip_status, which opens a second connection, and commits
\* after that call has returned; a connection dropped without commit rolls
\* its insert back.
SqliteApply(t, c, locked) ==
    CASE c.op = "add_clip" ->
           SqliteWrite(t, [t EXCEPT !.clips = Append(@, ClipRow(c))], locked)
      [] c.op = "update_clip_status" -> SqliteWrite(t, WithStatus(t, c.id, c.status), locked)
      [] c.op = "add_log" -> SqliteWrite(t, t, locked)
      [] c.op = "set_setting" ->
           SqliteWrite(t, [t EXCEPT !.settings = SetKey(@, c.key, c.value)], locked)
      [] c.op = "record_post" ->
           LET nested == SqliteWrite(t, WithStatus(t, c.id, StatusAfterPost(c.success)), TRUE)
           IN  IF locked \/ nested.raised THEN Raised(t)
               ELSE Returned([nested.tables EXCEPT !.posts = Append(@, PostRow(c))])

\* models.py: USE_FIREBASE after the module's initialisation.
ModelsUseFirebase(env) == env.use_firebase /\ env.firebase_ok

\* What a call leaves in the stores: the stores, whether the caller sees an
\* exception, and the stores the call was sent to.
Outcome(s, raised, sent) == [store |-> s, raised |-> raised, sent |-> sent]

\* A function of models.py.  With Firebase in use the Firestore code runs in
\* a try block whose handler goes on to the SQLite code, and that code calls
\* get_connection, which the module defines under "if not USE_FIREBASE"
\* only: the fallback raises NameError.
ModelsApply(env, s, c, fail) ==
    IF ModelsUseFirebase(env)
    THEN LET r == FirestoreApply(s.firebase, c, fail)
         IN  Outcome([s EXCEPT !.firebase = r.tables], r.raised, {"firebase"})
    ELSE LET r == SqliteApply(s.sqlite, c, FALSE)
         IN  Outcome([s EXCEPT !.sqlite = r.tables], r.raised, {"sqlite"})

\* firebase_db.DatabaseAdapter.__init__: db_type.
FirebaseDbSelects(env) ==
    IF env.use_firebase /\ env.firebase_ok THEN "firebase"
    ELSE IF env.use_cloud_db /\ env.supabase_ok THEN "supabase"
    ELSE "sqlite"

\* cloud_db.DatabaseAdapter.__init__: Supabase is tried only when
\* USE_FIREBASE is not set; otherwise the functions of models.py are used,
\* which pick Firestore or SQLite themselves.
CloudDbSelects(env) ==
    IF env.use_cloud_db /\ env.supabase_ok /\ ~env.use_firebase THEN "supabase"
    ELSE IF ModelsUseFirebase(env) THEN "firebase"
    ELSE "sqlite"

\* The modules a caller can import the five operations from.
DbModules == {"models", "firebase_db", "cloud_db"}

Selects(module, env) ==
    CASE module = "models" -> IF ModelsUseFirebase(env) THEN "firebase" ELSE "sqlite"
      [] module = "firebase_db" -> FirebaseDbSelects(env)
      [] module = "cloud_db" -> CloudDbSelects(env)

\* A call through one of the modules.  The adapters hand the call to
\* self.db without a try block, or to the function of models.py.
DbApply(module, env, s, c, fail) ==
    LET b == Selects(module, env)
    IN  IF module # "models" /\ b = "supabase"
        THEN LET r == SupabaseApply(s.supabase, c, fail)
             IN  Outcome([s EXCEPT !.supabase = r.tables], r.raised, {"supabase"})
        ELSE IF module = "firebase_db" /\ b = "firebase"
        THEN LET r == FirestoreApply(s.firebase, c, fail)
             IN  Outcome([s EXCEPT !.firebase = r.tables], r.raised, {"firebase"})
        ELSE ModelsApply(env, s, c, fail)

NoDbCall == [module |-> "", call |-> DbCallOf("none"), fail |-> 0, raised |-> FALSE,
             sent |-> {}]

\* The database as an earlier pipeline run left it: the clip of one rendered
\* video, registered for tiktok (main.py registers every clip under
\* platform='tiktok') and still pending, in the store models.py reads.
StoredDbClip == [filename |-> 1, platform |-> "tiktok", status |-> "pending"]

StoredStore(env) ==
    IF ModelsUseFirebase(env) THEN [FreshStore EXCEPT !.firebase.clips = <<StoredDbClip>>]
    ELSE [FreshStore EXCEPT !.sqlite.clips = <<StoredDbClip>>]

\* models.py imported under environment env.
DatabaseAt(env) ==
    /\ environ = env
    /\ store = StoredStore(env)
    /\ db_call = NoDbCall
    /\ manual = [d \in Dash |-> 0]

\* -------------------------------------------------------- the link rotator
\* affiliate_links.json as _load_links creates it when the file is missing.
DefaultLinks == <<[url |-> "", niche |-> "general", weight |-> 1, enabled |-> TRUE]>>

\* ------------------------------------------------------ the queue document
\* clips_queue.json as text: whether the file exists, its characters, and
\* whether it was written after the queue last changed.
NoDocument == [exists |-> FALSE, text |-> <<>>, current |-> FALSE]

\* What the last _load_clips_queue call returned, if one was made since the
\* queue or the file last changed.
NotLoaded == [loaded |-> FALSE, value |-> <<>>]

\* ------------------------------------------------------------ the scheduler
\* The module-level scheduler of the schedule package before run() has
\* registered a job: the clock (minutes since run() was entered), the job
\* list, the due jobs the current run_pending() call still has to run, where
\* run() is ("none": not entered, "loop": about to call run_pending,
\* "pending": inside run_pending, "posting": inside a posting job that
\* sleeps), the minute the last posting firing began at, and the minutes
\* between the last two posting firings (-1: there were not two).
NoSchedule == [now |-> 0, jobs |-> <<>>, runnable |-> <<>>, running |-> "none",
               last_fire |-> -1, gap |-> -1, fired |-> FALSE]

\* run(): "Starting first post in 2 minutes..."
first_post_minutes == 2

\* link_rotator.rotator, no queue document written or read yet, and a
\* scheduler without jobs.
OthersImported ==
    /\ links = DefaultLinks
    /\ usage_history = <<>>
    /\ link_calls = <<>>
    /\ document = NoDocument
    /\ reloaded = NotLoaded
    /\ sched = NoSchedule

\* The module-level objects after the imports, on the default environment.
ModulesImported == DatabaseAt(DefaultEnvironment) /\ OthersImported

\* SafeAutoPoster.__init__ / ContentAutomationSystem.__init__ on a fresh
\* working directory: no history, no queue, no rendered clip.
EmptyDirectory ==
    /\ today = 1
    /\ post_history = [p \in Posters |-> EmptyDict]
    /\ post_history_file = EmptyDict
    /\ pws = [p \in Posters |-> IdleCall]
    /\ ev = NoEvent
    /\ record_calls = [a \in GateAccountIds |-> 0]
    /\ enable_auto_posting \in BOOLEAN
    /\ clips_queue = <<>>
    /\ clips_queue_file = <<>>
    /\ files = {}
    /\ processed_videos = {}
    /\ processed_videos_file = {}
    /\ cycle = NoCycle
    /\ posted = {}
    /\ dropped = {}

FreshDirectory == EmptyDirectory /\ ModulesImported

\* Neither the loop nor the dashboard runs; posting is switched off.
NothingRuns ==
    /\ EmptyDirectory
    /\ ~enable_auto_posting
    /\ is_running = FALSE
    /\ automation = [l \in Loops |-> "none"]
    /\ generation = [g \in GenThreads |-> "none"]

\* The loop was started from the command line; the dashboard has started
\* nothing.
Init ==
    /\ FreshDirectory
    /\ is_running = FALSE
    /\ automation = [l \in Loops |-> IF l = CliLoop THEN "running" ELSE "none"]
    /\ generation = [g \in GenThreads |-> "none"]

\* The local calendar date changes.
Midnight ==
    /\ today < MaxDay
    /\ today' = today + 1
    /\ record_calls' = [a \in GateAccountIds |-> 0]
    /\ UNCHANGED <<post_history, post_history_file, pws, ev>>
    /\ UNCHANGED loopVars
    /\ UNCHANGED ctlVars
    /\ UNCHANGED auxVars
    /\ UNCHANGED schedVars

\* ------------------------------------------------- post_with_safety, shared
\* PwsBegin without the "return False" under the daily-limit check.
PwsBegin_no_return(p, h, platform, account) ==
    LET a == AccountId(platform, account)
    IN  /\ pws[p].pc = "idle"
        /\ post_history' = [post_history EXCEPT ![p] = should_post_history(h, a, today)]
        /\ pws' = [pws EXCEPT ![p] = [pc |-> "delay", platform |-> platform,
                                      account |-> account]]
        /\ ev' = ev
        /\ UNCHANGED post_history_file

\* First half of post_with_safety on instance p, whose self.post_history is h
\* at entry: account_id, the daily-limit check, and either the immediate
\* "return False" or the start of the time.sleep(delay_minutes * 60).
PwsBegin(p, h, platform, account) ==
    LET a == AccountId(platform, account)
    IN  /\ pws[p].pc = "idle"
        /\ post_history' = [post_history EXCEPT ![p] = should_post_history(h, a, today)]
        /\ IF should_post(h, a, today)
           THEN /\ pws' = [pws EXCEPT ![p] = [pc |-> "delay", platform |-> platform,
                                              account |-> account]]
                /\ ev' = ev
           ELSE /\ pws' = pws
                /\ ev' = [op |-> "post_with_safety", p |-> p, account |-> a,
                          platform |-> platform, ret |-> FALSE, delay |-> FALSE,
                          invoked |-> FALSE, day |-> today]
        /\ UNCHANGED post_history_file

\* PwsReturns with a poster exception taken for a success.
PwsReturns_raise_is_success(platform, outcome) ==
    platform \in KnownPlatforms /\ outcome # "fail"

\* What the call returns once the sleep is over and the poster answered
\* outcome ("ok" = True, "fail" = False, "raise" = an exception).
PwsReturns(platform, outcome) == platform \in KnownPlatforms /\ outcome = "ok"

\* Second half of post_with_safety on instance p: the sleep ends, the
\* platform poster is dispatched to, and a success is recorded and saved.
PwsFinish(p, outcome) ==
    LET platform == pws[p].platform
        a == AccountId(platform, pws[p].account)
        h == post_history[p]
        success == PwsReturns(platform, outcome)
    IN  /\ pws[p].pc = "delay"
        /\ IF success
           THEN /\ post_history' = [post_history EXCEPT ![p] = record_post(h, a, today)]
                /\ post_history_file' = post_history'[p]
           ELSE UNCHANGED <<post_history, post_history_file>>
        /\ pws' = [pws EXCEPT ![p] = IdleCall]
        /\ ev' = [op |-> "post_with_safety", p |-> p, account |-> a,
                  platform |-> platform, ret |-> success, delay |-> TRUE,
                  invoked |-> (platform \in KnownPlatforms), day |-> today]

\* ------------------------------------------------------------ gate harness
\* A caller that owns one SafeAutoPoster and calls its three operations
\* directly, with any platform and account.
GatePlatforms == {"tiktok", "facebook"}

GateAccounts == {acct1}

GateShouldPost(a) ==
    /\ pws[LoopPoster].pc = "idle"
    /\ post_history' = [post_history EXCEPT
                          ![LoopPoster] = should_post_history(@, a, today)]
    /\ ev' = [op |-> "should_post", p |-> LoopPoster, account |-> a, platform |-> "",
              ret |-> should_post(post_history[LoopPoster], a, today),
              delay |-> FALSE, invoked |-> FALSE, day |-> today]
    /\ UNCHANGED <<today, post_history_file, pws, record_calls>>
    /\ UNCHANGED loopVars
    /\ UNCHANGED ctlVars
    /\ UNCHANGED auxVars
    /\ UNCHANGED schedVars

GateRecordPost(a) ==
    /\ pws[LoopPoster].pc = "idle"
    /\ record_calls[a] < MaxCalls
    /\ post_history' = [post_history EXCEPT ![LoopPoster] = record_post(@, a, today)]
    /\ post_history_file' = post_history'[LoopPoster]
    /\ record_calls' = [record_calls EXCEPT ![a] = @ + 1]
    /\ ev' = [op |-> "record_post", p |-> LoopPoster, account |-> a, platform |-> "",
              ret |-> FALSE, delay |-> FALSE, invoked |-> FALSE, day |-> today]
    /\ UNCHANGED <<today, pws>>
    /\ UNCHANGED loopVars
    /\ UNCHANGED ctlVars
    /\ UNCHANGED auxVars
    /\ UNCHANGED schedVars

GatePwsBegin(platform, account) ==
    /\ PwsBegin(LoopPoster, post_history[LoopPoster], platform, account)
    /\ UNCHANGED <<today, record_calls>>
    /\ UNCHANGED loopVars
    /\ UNCHANGED ctlVars
    /\ UNCHANGED auxVars
    /\ UNCHANGED schedVars

GatePwsFinish(outcome) ==
    /\ PwsFinish(LoopPoster, outcome)
    /\ record_calls' =
         IF PwsReturns(pws[LoopPoster].platform, outcome)
            /\ AccountId(pws[LoopPoster].platform, pws[LoopPoster].account) \in GateAccountIds
         THEN [record_calls EXCEPT
                 ![AccountId(pws[LoopPoster].platform, pws[LoopPoster].account)] = @ + 1]
         ELSE record_calls
    /\ UNCHANGED today
    /\ UNCHANGED loopVars
    /\ UNCHANGED ctlVars
    /\ UNCHANGED auxVars
    /\ UNCHANGED schedVars

NextGate ==
    \/ \E a \in GateAccountIds : GateShouldPost(a)
    \/ \E a \in GateAccountIds : GateRecordPost(a)
    \/ \E platform \in GatePlatforms, account \in GateAccounts : GatePwsBegin(platform, account)
    \/ \E outcome \in PosterOutcomes : GatePwsFinish(outcome)
    \/ Midnight

InitGate == Init /\ enable_auto_posting

SpecGate == InitGate /\ [][NextGate]_vars

\* ---------------------------------------------------------- the pipeline
\* ClipfarmPipeline.run_daily as seen from the ready_to_post directories: the
\* videos of the feed that the monitor has not marked are processed, and
\* _organize_clip copies each rendered clip into every platform directory
\* unless a file of that name is already there.
NewVideos(feed, marked) == feed \ marked

\* made: the new videos for which process_video got as far as _organize_clip.
Organized(fs, made) == fs \cup {VideoPath(dir, v) : dir \in OrganizeDirs, v \in made}

\* Orders in which glob("*.mp4") may list a directory.
GlobOrders == {o \in [1..MaxVideos -> Videos] : \A i, j \in 1..MaxVideos : o[i] = o[j] => i = j}

\* ----------------------------------------------------- the automation loop
InQueue(q, path) == \E i \in 1..Len(q) : q[i].video_path = path

\* The (platform, file) pairs the scan visits, platform by platform.
ScanCandidates(order) ==
    [k \in 1..(Len(ScanPlatforms) * MaxVideos) |->
        VideoPath(ScanPlatforms[((k - 1) \div MaxVideos) + 1], order[((k - 1) % MaxVideos) + 1])]

\* NewClips without the "already in queue" test.
NewClips_no_dedup(q, fs, order) ==
    LET found == SelectSeq(ScanCandidates(order), LAMBDA path : path \in fs)
    IN  [i \in 1..Len(found) |->
            [video_path |-> found[i], caption |-> found[i].name,
             platform |-> found[i].dir, added_at |-> today]]

\* new_clips: every video file found whose path no queue entry carries.
NewClips(q, fs, order) ==
    LET found == SelectSeq(ScanCandidates(order),
                           LAMBDA path : path \in fs /\ ~InQueue(q, path))
    IN  [i \in 1..Len(found) |->
            [video_path |-> found[i], caption |-> found[i].name,
             platform |-> found[i].dir, added_at |-> today]]

\* daily_content_generation: run the pipeline, scan the platform folders,
\* extend the queue, save it.  The scheduler runs one job at a time, so it
\* never runs while hourly_posting is inside post_with_safety.
daily_content_generation(feed, made, order) ==
    LET new == NewVideos(feed, processed_videos)
        fs == Organized(files, made)
    IN  /\ LoopAlive
        /\ pws[LoopPoster].pc = "idle"
        /\ made \subseteq new
        /\ files' = fs
        /\ processed_videos' = processed_videos \cup new
        /\ processed_videos_file' = IF new = {} THEN processed_videos_file
                                    ELSE processed_videos'
        /\ clips_queue' = clips_queue \o NewClips(clips_queue, fs, order)
        /\ clips_queue_file' = clips_queue'
        /\ UNCHANGED <<enable_auto_posting, cycle, posted, dropped>>
        /\ UNCHANGED gateVars
        /\ UNCHANGED ctlVars
        /\ UNCHANGED auxVars

\* The job as the loop specifications take it, the scheduler left aside.
DailyContentGeneration(feed, made, order) ==
    daily_content_generation(feed, made, order) /\ UNCHANGED schedVars

\* A clip that was not posted is not put back at all.
Requeue_drop(q, clip) == q

\* A clip that was not posted is put back at the head.
Requeue_at_head(q, clip) == <<clip>> \o q

\* Where a clip that was not posted is put back.
Requeue(q, clip) == Append(q, clip)

\* The clip a firing takes from the queue.
PopIndex_last(q) == Len(q)

PopIndex(q) == 1

Popped(q) == q[PopIndex(q)]

AfterPop(q) == [i \in 1..(Len(q) - 1) |-> IF i < PopIndex(q) THEN q[i] ELSE q[i + 1]]

\* hourly_posting up to the point where it either returns or blocks in the
\* sleep of post_with_safety.
hourly_posting_begin ==
    /\ LoopAlive
    /\ pws[LoopPoster].pc = "idle"
    /\ UNCHANGED ctlVars
    /\ UNCHANGED <<today, record_calls, enable_auto_posting, files,
                   processed_videos, processed_videos_file, posted>>
    /\ IF ~enable_auto_posting
       THEN /\ cycle' = [NoCycle EXCEPT !.outcome = "disabled", !.before = clips_queue]
            /\ UNCHANGED <<post_history, post_history_file, pws, ev,
                           clips_queue, clips_queue_file, dropped>>
       ELSE IF clips_queue = <<>>
       THEN /\ cycle' = [NoCycle EXCEPT !.outcome = "empty"]
            /\ UNCHANGED <<post_history, post_history_file, pws, ev,
                           clips_queue, clips_queue_file, dropped>>
       ELSE
         LET clip == Popped(clips_queue)
             rest == AfterPop(clips_queue)
             platform == clip.platform
             done(outcome, account, calls) ==
                 [outcome |-> outcome, clip |-> clip, account |-> account,
                  before |-> clips_queue, pops |-> 1, pws_calls |-> calls]
         IN  IF clip.video_path \notin files
             THEN /\ clips_queue' = rest
                  /\ clips_queue_file' = clips_queue'
                  /\ dropped' = dropped \cup {clip.video_path}
                  /\ cycle' = done("missing_video", NoAccount, 0)
                  /\ UNCHANGED <<post_history, post_history_file, pws, ev>>
             ELSE IF platform \notin DOMAIN accounts \/ accounts[platform] = <<>>
             THEN /\ clips_queue' = Requeue(rest, clip)
                  /\ clips_queue_file' = clips_queue'
                  /\ cycle' = done("no_accounts", NoAccount, 0)
                  /\ UNCHANGED <<post_history, post_history_file, pws, ev, dropped>>
             ELSE \E i \in 1..Len(accounts[platform]) :
                    LET account == accounts[platform][i]
                    IN  IF account.cookies_file \notin cookie_files
                        THEN /\ clips_queue' = Requeue(rest, clip)
                             /\ clips_queue_file' = clips_queue'
                             /\ cycle' = done("no_cookies", account, 0)
                             /\ UNCHANGED <<post_history, post_history_file, pws, ev, dropped>>
                        ELSE /\ PwsBegin(LoopPoster, post_history[LoopPoster], platform, account)
                             /\ UNCHANGED dropped
                             /\ IF pws'[LoopPoster].pc = "delay"
                                THEN /\ clips_queue' = rest
                                     /\ UNCHANGED clips_queue_file
                                     /\ cycle' = done("in_flight", account, 1)
                                ELSE /\ clips_queue' = Requeue(rest, clip)
                                     /\ clips_queue_file' = clips_queue'
                                     /\ cycle' = done("failure", account, 1)
    /\ UNCHANGED auxVars

\* The firing as the loop specifications take it, the scheduler left aside.
HourlyPostingBegin == hourly_posting_begin /\ UNCHANGED schedVars

\* HourlyPostingFinish with the final save made on the failure path only.
HourlyPostingFinish_save_on_failure_only(outcome) ==
    /\ LoopAlive
    /\ cycle.outcome = "in_flight"
    /\ UNCHANGED ctlVars
    /\ PwsFinish(LoopPoster, outcome)
    /\ IF ev'.ret
       THEN /\ clips_queue' = clips_queue
            /\ posted' = posted \cup {cycle.clip.video_path}
            /\ cycle' = [cycle EXCEPT !.outcome = "success"]
            /\ clips_queue_file' = clips_queue_file
       ELSE /\ clips_queue' = Requeue(clips_queue, cycle.clip)
            /\ posted' = posted
            /\ cycle' = [cycle EXCEPT !.outcome = "failure"]
            /\ clips_queue_file' = clips_queue'
    /\ UNCHANGED <<today, record_calls, enable_auto_posting, files,
                   processed_videos, processed_videos_file, dropped>>
    /\ UNCHANGED auxVars
    /\ UNCHANGED schedVars

\* hourly_posting from the return of the blocked post_with_safety call on.
hourly_posting_finish(outcome) ==
    /\ LoopAlive
    /\ cycle.outcome = "in_flight"
    /\ UNCHANGED ctlVars
    /\ PwsFinish(LoopPoster, outcome)
    /\ IF ev'.ret
       THEN /\ clips_queue' = clips_queue
            /\ posted' = posted \cup {cycle.clip.video_path}
            /\ cycle' = [cycle EXCEPT !.outcome = "success"]
       ELSE /\ clips_queue' = Requeue(clips_queue, cycle.clip)
            /\ posted' = posted
            /\ cycle' = [cycle EXCEPT !.outcome = "failure"]
    /\ clips_queue_file' = clips_queue'
    /\ UNCHANGED <<today, record_calls, enable_auto_posting, files,
                   processed_videos, processed_videos_file, dropped>>
    /\ UNCHANGED auxVars

\* The return as the loop specifications take it, the scheduler left aside.
HourlyPostingFinish(outcome) == hourly_posting_finish(outcome) /\ UNCHANGED schedVars

\* ------------------------------------------------------------ the dashboard
\* The tables the functions of models.py read.
ModelsTables(env, s) == IF ModelsUseFirebase(env) THEN s.firebase ELSE s.sqlite

\* get_clips(platform=platform, status='pending'), newest first, and the
\* first clip of the wanted file name in it: its id, or 0 when there is none.
FindPendingClip(t, platform, filename) ==
    LET found == {id \in DOMAIN t.clips : /\ t.clips[id].status = "pending"
                                          /\ t.clips[id].platform = platform
                                          /\ t.clips[id].filename = filename}
    IN  IF found = {} THEN 0 ELSE CHOOSE id \in found : \A other \in found : other <= id

\* The record_post call manual_post makes after post_with_safety returned.
\* An exception it raises is caught by the handler's "except Exception",
\* which logs it and answers 500.
ManualRecordPost(id, platform, account, success) ==
    ModelsApply(environ, store,
                db_record_post(id, platform, account.username, success,
                               IF success THEN "" ELSE "Manual post failed"),
                0).store

\* manual_post up to the return or the sleep of post_with_safety: the clip
\* is looked up among the pending clips of the database (404 when it is not
\* there), a new SafeAutoPoster loads post_history.json,
\* accounts.get_accounts() reads accounts.json, the first account of the
\* platform is used, and a call that returns at once is recorded as a failed
\* post.
ManualPostBegin(d, platform) ==
    /\ pws[d].pc = "idle"
    /\ \E filename \in Videos :
          LET id == FindPendingClip(ModelsTables(environ, store), platform, filename)
          IN  /\ id # 0
              /\ IF platform \notin DOMAIN accounts \/ accounts[platform] = <<>>
                 THEN /\ post_history' = [post_history EXCEPT ![d] = post_history_file]
                      /\ UNCHANGED <<post_history_file, pws, ev, store, manual>>
                 ELSE /\ PwsBegin(d, post_history_file, platform, accounts[platform][1])
                      /\ IF pws'[d].pc = "delay"
                         THEN /\ manual' = [manual EXCEPT ![d] = id]
                              /\ UNCHANGED store
                         ELSE /\ store' = ManualRecordPost(id, platform,
                                                           accounts[platform][1], FALSE)
                              /\ UNCHANGED manual
    /\ UNCHANGED <<today, record_calls, environ, db_call>>
    /\ UNCHANGED loopVars
    /\ UNCHANGED ctlVars
    /\ UNCHANGED <<rotatorVars, jsonVars>>
    /\ UNCHANGED schedVars

\* manual_post from the return of post_with_safety on: the attempt is
\* recorded in the database as posted or failed.
ManualPostFinish(d, outcome) ==
    /\ PwsFinish(d, outcome)
    /\ store' = ManualRecordPost(manual[d], pws[d].platform, pws[d].account, ev'.ret)
    /\ manual' = [manual EXCEPT ![d] = 0]
    /\ UNCHANGED <<today, record_calls, environ, db_call>>
    /\ UNCHANGED loopVars
    /\ UNCHANGED ctlVars
    /\ UNCHANGED <<rotatorVars, jsonVars>>
    /\ UNCHANGED schedVars

\* delete_clip(path) for a file that exists: unlink it and rewrite
\* clips_queue.json without the entries of that path.
DeleteClip(path) ==
    /\ path \in files
    /\ files' = files \ {path}
    /\ clips_queue_file' = SelectSeq(clips_queue_file, LAMBDA c : c.video_path # path)
    /\ UNCHANGED <<enable_auto_posting, clips_queue, processed_videos,
                   processed_videos_file, cycle, posted, dropped>>
    /\ UNCHANGED gateVars
    /\ UNCHANGED ctlVars
    /\ UNCHANGED auxVars
    /\ UNCHANGED schedVars

\* run_generation with its thread run to the end: a ClipfarmPipeline of its
\* own, whose monitor loads processed_videos.json when it is constructed;
\* the thread sets is_running and clears it in its "finally".
RunGeneration(feed, made) ==
    LET new == NewVideos(feed, processed_videos_file)
    IN  /\ made \subseteq new
        /\ files' = Organized(files, made)
        /\ processed_videos_file' = processed_videos_file \cup new
        /\ is_running' = FALSE
        /\ UNCHANGED <<enable_auto_posting, clips_queue, clips_queue_file,
                       processed_videos, cycle, posted, dropped>>
        /\ UNCHANGED gateVars
        /\ UNCHANGED <<automation, generation>>
        /\ UNCHANGED auxVars
        /\ UNCHANGED schedVars

\* The automation loop with the dashboard's file operations, on one date.
Next ==
    \/ \E feed \in SUBSET Videos, made \in SUBSET Videos, order \in GlobOrders :
          DailyContentGeneration(feed, made, order)
    \/ HourlyPostingBegin
    \/ \E outcome \in PosterOutcomes : HourlyPostingFinish(outcome)
    \/ \E path \in files : DeleteClip(path)
    \/ \E feed \in SUBSET Videos, made \in SUBSET Videos : RunGeneration(feed, made)

Spec == Init /\ [][Next]_vars

\* The automation loop with the dashboard's manual posts, across dates.
NextPost ==
    \/ \E feed \in SUBSET Videos, made \in SUBSET Videos, order \in GlobOrders :
          DailyContentGeneration(feed, made, order)
    \/ HourlyPostingBegin
    \/ \E outcome \in PosterOutcomes : HourlyPostingFinish(outcome)
    \/ \E d \in Dash, platform \in KnownPlatforms : ManualPostBegin(d, platform)
    \/ \E d \in Dash, outcome \in PosterOutcomes : ManualPostFinish(d, outcome)
    \/ Midnight

InitPost == Init /\ enable_auto_posting

SpecPost == InitPost /\ [][NextPost]_vars

\* ------------------------------------------------- one posting cycle alone
\* A loop that starts on what earlier runs left behind: a queue of up to
\* MaxQueue clips with distinct paths, any of whose files may be gone, and a
\* history with 0..max_posts_per_day posts of the set-up account today.
StoredVideos == 1..MaxStored

StoredPaths == {VideoPath(dir, v) : dir \in OrganizeDirs, v \in StoredVideos}

StoredClip(path) == [video_path |-> path, caption |-> path.name,
                     platform |-> path.dir, added_at |-> 1]

\* Sequences of n distinct elements of S.
DistinctSeqs(S, n) == {f \in [1..n -> S] : \A i, j \in 1..n : f[i] = f[j] => i = j}

StoredQueues ==
    UNION {{[i \in 1..n |-> StoredClip(f[i])] : f \in DistinctSeqs(StoredPaths, n)}
             : n \in 0..MaxQueue}

StoredHistory(n) ==
    IF n = 0 THEN EmptyDict
    ELSE SetKey(EmptyDict, AccountId("tiktok", acct1), SetKey(EmptyDict, 1, n))

\* The working directory an earlier run left behind: a stored queue, the
\* stored posting history, and any of the rendered files still there.
StoredDirectory ==
    /\ today = 1
    /\ \E n \in 0..max_posts_per_day :
          /\ post_history = [p \in Posters |->
                               IF p = LoopPoster THEN StoredHistory(n) ELSE EmptyDict]
          /\ post_history_file = StoredHistory(n)
    /\ pws = [p \in Posters |-> IdleCall]
    /\ ev = NoEvent
    /\ record_calls = [a \in GateAccountIds |-> 0]
    /\ enable_auto_posting \in BOOLEAN
    /\ clips_queue \in StoredQueues
    /\ clips_queue_file = clips_queue
    /\ files \in SUBSET StoredPaths
    /\ processed_videos = StoredVideos
    /\ processed_videos_file = StoredVideos
    /\ cycle = NoCycle
    /\ posted = {}
    /\ dropped = {}

\* The loop was started from the command line.
CliLoopStarted ==
    /\ is_running = FALSE
    /\ automation = [l \in Loops |-> IF l = CliLoop THEN "running" ELSE "none"]
    /\ generation = [g \in GenThreads |-> "none"]

InitCycle == StoredDirectory /\ CliLoopStarted /\ ModulesImported

NextCycle ==
    \/ HourlyPostingBegin
    \/ \E outcome \in PosterOutcomes : HourlyPostingFinish(outcome)

SpecCycle == InitCycle /\ [][NextCycle]_vars

\* ---------------------------------------------------- gate harness: claims
Dates == 1..MaxDay

KeysOf(h1, h2) == (DOMAIN h1) \cup (DOMAIN h2)

\* Every counter other than (a, d) reads the same in h1 and h2.
OthersUnchanged(h1, h2, a, d) ==
    \A a2 \in KeysOf(h1, h2), d2 \in Dates :
        (a2 # a \/ d2 # d) => CountOf(h2, a2, d2) = CountOf(h1, a2, d2)

\* C2: should_post(account_id) returns true exactly when the number of posts
\* recorded for the account on the current date, a missing account or date
\* counting as zero, is strictly below max_posts_per_day.
C2_should_post_iff_below_cap ==
    [][\A a \in GateAccountIds :
         GateShouldPost(a) =>
           (ev'.ret = (CountOf(post_history[LoopPoster], a, today) < max_posts_per_day))]_vars

\* should_post answered true on a new date although the day before had
\* reached the maximum.
C2_witness ==
    /\ ev.op = "should_post" /\ ev.ret /\ ev.day = today /\ today > 1
    /\ CountOf(post_history[LoopPoster], ev.account, today - 1) >= max_posts_per_day
    /\ CountOf(post_history[LoopPoster], ev.account, today) = 0

\* C3: should_post leaves the post history (account keys, date keys and
\* counts) exactly as it found it.
C3_should_post_is_pure ==
    [][\A a \in GateAccountIds :
         GateShouldPost(a) => post_history'[LoopPoster] = post_history[LoopPoster]]_vars

\* C4: record_post(account_id) adds exactly one to today's counter of the
\* account, changes no other counter and leaves post_history.json equal to
\* the in-memory history; so after N record_post calls for an account on one
\* date should_post answers N < max_posts_per_day.
C4_record_post_effect ==
    /\ [][\A a \in GateAccountIds :
            GateRecordPost(a) =>
              /\ CountOf(post_history'[LoopPoster], a, today)
                   = CountOf(post_history[LoopPoster], a, today) + 1
              /\ OthersUnchanged(post_history[LoopPoster], post_history'[LoopPoster], a, today)
              /\ post_history_file' = post_history'[LoopPoster]]_vars
    /\ []((ev.op = "should_post" /\ ev.day = today)
            => (ev.ret = (record_calls[ev.account] < max_posts_per_day)))

\* should_post answered false after at least max_posts_per_day recordings.
C4_witness ==
    /\ ev.op = "should_post" /\ ev.day = today /\ ~ev.ret
    /\ record_calls[ev.account] >= max_posts_per_day
    /\ post_history_file = post_history[LoopPoster]

\* C5: called for an account that already has max_posts_per_day posts
\* recorded today, post_with_safety returns false at once: no delay, no
\* poster invocation, no change to the history in memory or on disk.
C5_cap_reached_returns_at_once ==
    [][\A platform \in GatePlatforms, account \in GateAccounts :
         (/\ GatePwsBegin(platform, account)
          /\ CountOf(post_history[LoopPoster], AccountId(platform, account), today)
               >= max_posts_per_day)
         => /\ pws'[LoopPoster].pc = "idle"
            /\ ev'.op = "post_with_safety" /\ ev'.account = AccountId(platform, account)
            /\ ~ev'.ret /\ ~ev'.delay /\ ~ev'.invoked
            /\ post_history' = post_history
            /\ post_history_file' = post_history_file]_vars

\* post_with_safety has just refused an account that is at its cap.
C5_witness ==
    /\ ev.op = "post_with_safety" /\ ~ev.ret /\ ~ev.delay /\ ev.day = today
    /\ CountOf(post_history[LoopPoster], ev.account, today) >= max_posts_per_day
    /\ pws[LoopPoster].pc = "idle"

C1_recorded_count_within_cap ==
    /\ \A p \in Posters : \A a \in DOMAIN post_history[p] :
          \A d \in DOMAIN post_history[p][a] : post_history[p][a][d] <= max_posts_per_day
    /\ \A a \in DOMAIN post_history_file :
          \A d \in DOMAIN post_history_file[a] : post_history_file[a][d] <= max_posts_per_day

\* The loop and a manual post both passed the daily-limit test at max_posts_per_day - 1
\* and both succeeded: the dashboard's instance has just recorded the last
\* allowed post while the loop's history and the file are at the cap too.
C1_witness ==
    /\ ev.op = "post_with_safety" /\ ev.ret /\ ev.p \in Dash /\ ev.day = today
    /\ post_history[ev.p][ev.account][today] = max_posts_per_day
    /\ CountOf(post_history[LoopPoster], ev.account, today) = max_posts_per_day
    /\ post_history_file[ev.account][today] = max_posts_per_day
    /\ cycle.outcome = "success"

\* C7: a clip the loop has posted successfully is in the queue in no later
\* state, whatever generation runs and posting cycles follow.
C7_posted_clip_never_requeued ==
    \A path \in posted : ~InQueue(clips_queue, path)

\* C8: at the end of a posting cycle whose post attempt failed, the clip is
\* in the queue exactly once, as its last entry, and the other entries are
\* the ones the queue held before the cycle, unchanged and in the same order.
C8_failed_clip_requeued_at_tail ==
    cycle.outcome = "failure" =>
      LET clip == cycle.clip
          others(q) == SelectSeq(q, LAMBDA c : c # clip)
      IN  /\ clips_queue # <<>>
          /\ clips_queue[Len(clips_queue)] = clip
          /\ Cardinality({i \in 1..Len(clips_queue) :
                            clips_queue[i].video_path = clip.video_path}) = 1
          /\ Len(clips_queue) = Len(cycle.before)
          /\ others(clips_queue) = others(cycle.before)

\* The poster was invoked and failed with two other clips waiting.
C8_witness ==
    /\ cycle.outcome = "failure" /\ Len(clips_queue) >= 3
    /\ ev.op = "post_with_safety" /\ ev.invoked /\ ~ev.ret
    /\ clips_queue[Len(clips_queue)] = cycle.clip

\* C9: a firing of hourly_posting takes at most one clip, the head of the
\* queue, and calls post_with_safety at most once; on an empty queue it
\* changes nothing.
C9_one_clip_per_firing ==
    /\ [][HourlyPostingBegin =>
            IF clips_queue = <<>> \/ ~enable_auto_posting
            THEN UNCHANGED <<clips_queue, clips_queue_file, post_history,
                             post_history_file, pws, ev, files>>
            ELSE /\ cycle'.clip = Head(clips_queue)
                 /\ cycle'.pops = 1 /\ cycle'.pws_calls <= 1
                 /\ (pws'[LoopPoster].pc = "delay") => cycle'.pws_calls = 1
                 /\ \/ clips_queue' = Tail(clips_queue)
                    \/ clips_queue' = Append(Tail(clips_queue), Head(clips_queue))]_vars
    /\ [][\A outcome \in PosterOutcomes :
            HourlyPostingFinish(outcome) =>
              /\ cycle'.pops = 1 /\ cycle'.pws_calls = 1 /\ cycle'.clip = cycle.clip
              /\ pws'[LoopPoster].pc = "idle"
              /\ \/ clips_queue' = clips_queue
                 \/ clips_queue' = Append(clips_queue, cycle.clip)]_vars

\* A firing took the head of a queue of several clips and posted it.
C9_witness ==
    /\ cycle.outcome = "success" /\ Len(cycle.before) >= 2
    /\ cycle.clip = Head(cycle.before) /\ clips_queue = Tail(cycle.before)
    /\ cycle.pops = 1 /\ cycle.pws_calls = 1

\* C10: a clip popped while its video file is missing is dropped without a
\* post attempt, from the queue in memory and from clips_queue.json, and is
\* in the queue in no later state.
C10_dropped_clip_never_reappears ==
    /\ cycle.outcome = "missing_video" => cycle.pws_calls = 0
    /\ \A path \in dropped : ~InQueue(clips_queue, path)

\* ------------------------------------------------- the loop's life and end
\* What a stopped open(..., 'w') + json.dump leaves of a document: open
\* raised and the document is untouched, or the document was truncated and
\* what was written does not parse, which every loader reads as empty.
CutDocument(doc, empty) == {doc, empty}

\* How a write can stop: the call raises OSError, or the process dies in it.
Fates == {"failed", "killed"}

\* The running loop ends: run() is left by an exception or the process is
\* gone.  run_automation's "finally" clears is_running; a dashboard that
\* died with its thread starts again with is_running = False.
LoopEnds(fate) ==
    /\ automation' = [l \in Loops |-> IF automation[l] = "running" THEN fate
                                     ELSE automation[l]]
    /\ is_running' = IF automation[CliLoop] = "running" THEN is_running ELSE FALSE
    /\ UNCHANGED generation

\* stop_automation.
StopAutomation ==
    /\ is_running' = FALSE
    /\ UNCHANGED <<automation, generation>>
    /\ UNCHANGED gateVars
    /\ UNCHANGED loopVars
    /\ UNCHANGED auxVars
    /\ UNCHANGED schedVars

\* Ctrl+C in the command-line loop: KeyboardInterrupt leaves whatever
\* run_pending() was executing, post_with_safety included (its handler is
\* "except Exception"), and run() saves the queue and returns.
KeyboardInterrupt ==
    /\ automation[CliLoop] = "running"
    /\ automation' = [automation EXCEPT ![CliLoop] = "interrupted"]
    /\ clips_queue_file' = clips_queue
    /\ pws' = [pws EXCEPT ![LoopPoster] = IdleCall]
    /\ cycle' = IF cycle.outcome = "in_flight"
                THEN [cycle EXCEPT !.outcome = "interrupted"] ELSE cycle
    /\ UNCHANGED <<today, post_history, post_history_file, ev, record_calls,
                   enable_auto_posting, clips_queue, files, processed_videos,
                   processed_videos_file, posted, dropped, is_running, generation>>
    /\ UNCHANGED auxVars
    /\ UNCHANGED schedVars

\* The process dies between two statements (kill -9, power loss).  The
\* variables of the dead process keep what it held when it died.
Kill ==
    /\ LoopAlive
    /\ LoopEnds("killed")
    /\ UNCHANGED gateVars
    /\ UNCHANGED loopVars
    /\ UNCHANGED auxVars
    /\ UNCHANGED schedVars

\* The loop is started again: ContentAutomationSystem.__init__ loads
\* clips_queue.json, SafeAutoPoster.__init__ loads post_history.json and the
\* monitor loads processed_videos.json.
Restart(l) ==
    /\ automation[l] \in {"interrupted", "failed", "killed"}
    /\ automation' = [automation EXCEPT ![l] = "running"]
    /\ is_running' = IF l = CliLoop THEN is_running ELSE TRUE
    /\ clips_queue' = clips_queue_file
    /\ post_history' = [post_history EXCEPT ![LoopPoster] = post_history_file]
    /\ processed_videos' = processed_videos_file
    /\ pws' = [pws EXCEPT ![LoopPoster] = IdleCall]
    /\ cycle' = NoCycle
    /\ UNCHANGED <<today, post_history_file, ev, record_calls, enable_auto_posting,
                   clips_queue_file, files, processed_videos_file, posted, dropped,
                   generation>>
    /\ UNCHANGED auxVars
    /\ UNCHANGED schedVars

\* hourly_posting on a path that returns without calling the poster, with
\* its _save_clips_queue() stopped: the queue in memory is what the path made
\* of it, clips_queue.json is what the stopped write left.  Nothing between
\* hourly_posting and run() catches OSError, and run() catches only
\* KeyboardInterrupt.
HourlyPostingSaveCut(written, fate) ==
    /\ LoopAlive
    /\ pws[LoopPoster].pc = "idle"
    /\ enable_auto_posting
    /\ clips_queue # <<>>
    /\ LET clip == Popped(clips_queue)
           rest == AfterPop(clips_queue)
           platform == clip.platform
           cut(account, calls) ==
               [outcome |-> "save_cut", clip |-> clip, account |-> account,
                before |-> clips_queue, pops |-> 1, pws_calls |-> calls]
       IN  IF clip.video_path \notin files
           THEN /\ clips_queue' = rest
                /\ dropped' = dropped \cup {clip.video_path}
                /\ cycle' = cut(NoAccount, 0)
                /\ UNCHANGED post_history
           ELSE IF platform \notin DOMAIN accounts \/ accounts[platform] = <<>>
           THEN /\ clips_queue' = Requeue(rest, clip)
                /\ cycle' = cut(NoAccount, 0)
                /\ UNCHANGED <<post_history, dropped>>
           ELSE \E i \in 1..Len(accounts[platform]) :
                  LET account == accounts[platform][i]
                      a == AccountId(platform, account)
                      h == post_history[LoopPoster]
                  IN  /\ clips_queue' = Requeue(rest, clip)
                      /\ UNCHANGED dropped
                      /\ IF account.cookies_file \notin cookie_files
                         THEN /\ cycle' = cut(account, 0)
                              /\ UNCHANGED post_history
                         ELSE /\ ~should_post(h, a, today)
                              /\ post_history' = [post_history EXCEPT
                                     ![LoopPoster] = should_post_history(h, a, today)]
                              /\ cycle' = cut(account, 1)
    /\ clips_queue_file' = written
    /\ LoopEnds(fate)
    /\ UNCHANGED <<today, post_history_file, pws, ev, record_calls, enable_auto_posting,
                   files, processed_videos, processed_videos_file, posted>>
    /\ UNCHANGED auxVars
    /\ UNCHANGED schedVars

\* hourly_posting from the return of post_with_safety on, with the final
\* _save_clips_queue() stopped.
HourlyPostingFinishSaveCut(outcome, written, fate) ==
    /\ LoopAlive
    /\ cycle.outcome = "in_flight"
    /\ PwsFinish(LoopPoster, outcome)
    /\ IF ev'.ret
       THEN /\ clips_queue' = clips_queue
            /\ posted' = posted \cup {cycle.clip.video_path}
       ELSE /\ clips_queue' = Requeue(clips_queue, cycle.clip)
            /\ posted' = posted
    /\ cycle' = [cycle EXCEPT !.outcome = "save_cut"]
    /\ clips_queue_file' = written
    /\ LoopEnds(fate)
    /\ UNCHANGED <<today, record_calls, enable_auto_posting, files,
                   processed_videos, processed_videos_file, dropped>>
    /\ UNCHANGED auxVars
    /\ UNCHANGED schedVars

\* The poster reported success and the _save_history() of record_post is
\* stopped.  An OSError is caught by post_with_safety's "except Exception":
\* the call returns False, and hourly_posting puts the posted clip back and
\* saves the queue.  A process that dies there does nothing more.
HistorySaveCut(written, fate) ==
    LET platform == pws[LoopPoster].platform
        a == AccountId(platform, pws[LoopPoster].account)
    IN  /\ LoopAlive
        /\ cycle.outcome = "in_flight"
        /\ post_history' = [post_history EXCEPT
                              ![LoopPoster] = record_post(@, a, today)]
        /\ post_history_file' = written
        /\ posted' = posted \cup {cycle.clip.video_path}
        /\ IF fate = "failed"
           THEN /\ pws' = [pws EXCEPT ![LoopPoster] = IdleCall]
                /\ ev' = [op |-> "post_with_safety", p |-> LoopPoster, account |-> a,
                          platform |-> platform, ret |-> FALSE, delay |-> TRUE,
                          invoked |-> TRUE, day |-> today]
                /\ clips_queue' = Requeue(clips_queue, cycle.clip)
                /\ clips_queue_file' = clips_queue'
                /\ cycle' = [cycle EXCEPT !.outcome = "failure"]
                /\ UNCHANGED ctlVars
           ELSE /\ LoopEnds(fate)
                /\ UNCHANGED <<pws, ev, clips_queue, clips_queue_file, cycle>>
        /\ UNCHANGED <<today, record_calls, enable_auto_posting, files,
                       processed_videos, processed_videos_file, dropped>>
        /\ UNCHANGED auxVars
        /\ UNCHANGED schedVars

\* daily_content_generation with its _save_clips_queue() stopped.  The
\* OSError is caught by the handler's own "except Exception" and the loop
\* goes on with the extended queue in memory.
DailyContentGenerationSaveCut(feed, made, order, written, fate) ==
    LET new == NewVideos(feed, processed_videos)
        fs == Organized(files, made)
    IN  /\ LoopAlive
        /\ pws[LoopPoster].pc = "idle"
        /\ made \subseteq new
        /\ files' = fs
        /\ processed_videos' = processed_videos \cup new
        /\ processed_videos_file' = IF new = {} THEN processed_videos_file
                                    ELSE processed_videos'
        /\ clips_queue' = clips_queue \o NewClips(clips_queue, fs, order)
        /\ clips_queue_file' = written
        /\ IF fate = "failed" THEN UNCHANGED ctlVars ELSE LoopEnds(fate)
        /\ UNCHANGED <<enable_auto_posting, cycle, posted, dropped>>
        /\ UNCHANGED gateVars
        /\ UNCHANGED auxVars
        /\ UNCHANGED schedVars

\* The loop started from a fresh directory, by the command line or by the
\* dashboard's start_automation.
InitRun ==
    /\ FreshDirectory
    /\ \E l \in {CliLoop, 1} :
          /\ automation = [k \in Loops |-> IF k = l THEN "running" ELSE "none"]
          /\ is_running = (l # CliLoop)
    /\ generation = [g \in GenThreads |-> "none"]

NextRun ==
    \/ \E feed \in SUBSET Videos, made \in SUBSET Videos, order \in GlobOrders :
          DailyContentGeneration(feed, made, order)
    \/ HourlyPostingBegin
    \/ \E outcome \in PosterOutcomes : HourlyPostingFinish(outcome)
    \/ StopAutomation
    \/ KeyboardInterrupt
    \/ \E written \in CutDocument(clips_queue_file, <<>>), fate \in Fates :
          HourlyPostingSaveCut(written, fate)
    \/ \E outcome \in PosterOutcomes, written \in CutDocument(clips_queue_file, <<>>),
          fate \in Fates : HourlyPostingFinishSaveCut(outcome, written, fate)
    \/ \E written \in CutDocument(post_history_file, EmptyDict), fate \in Fates :
          HistorySaveCut(written, fate)
    \/ \E feed \in SUBSET Videos, made \in SUBSET Videos, order \in GlobOrders,
          written \in CutDocument(clips_queue_file, <<>>), fate \in Fates :
          DailyContentGenerationSaveCut(feed, made, order, written, fate)
    \/ Kill
    \/ \E l \in Loops : Restart(l)

SpecRun == InitRun /\ [][NextRun]_vars

\* ------------------------------------------------ the loop's life: claims
\* C12: once a stop has been requested, the loop sees it at its next
\* iteration, saves the queue and ends: a dashboard-started loop whose
\* is_running flag has been cleared starts no posting cycle and no generation
\* run, and an interrupted command-line loop leaves clips_queue.json equal to
\* its queue and is not running afterwards.
C12_stop_ends_the_loop ==
    /\ [][((\E l \in DashLoops : automation[l] = "running") /\ ~is_running)
            => /\ ~HourlyPostingBegin
               /\ ~(\E feed \in SUBSET Videos, made \in SUBSET Videos, order \in GlobOrders :
                       DailyContentGeneration(feed, made, order))]_vars
    /\ [][KeyboardInterrupt => (clips_queue_file' = clips_queue' /\ ~LoopAlive')]_vars

\* ---------------------------------------------- the dashboard's threads
\* start_automation: refused while is_running is set, else a new thread is
\* created and started.  The handler itself does not touch is_running.
StartAutomation(t) ==
    /\ automation[t] \notin {"started", "running"}
    /\ automation' = IF is_running THEN automation
                     ELSE [automation EXCEPT ![t] = "started"]
    /\ UNCHANGED <<is_running, generation>>
    /\ UNCHANGED gateVars
    /\ UNCHANGED loopVars
    /\ UNCHANGED auxVars
    /\ UNCHANGED schedVars

\* run_automation, the thread's body: is_running = True, then the
\* ContentAutomationSystem is constructed and run() entered.
AutomationThreadRun(t) ==
    /\ automation[t] = "started"
    /\ automation' = [automation EXCEPT ![t] = "running"]
    /\ is_running' = TRUE
    /\ UNCHANGED generation
    /\ UNCHANGED gateVars
    /\ UNCHANGED loopVars
    /\ UNCHANGED auxVars
    /\ UNCHANGED schedVars

\* run() is left by an exception: "except Exception" prints it and
\* "finally" clears is_running.
AutomationThreadFails(t) ==
    /\ automation[t] = "running"
    /\ automation' = [automation EXCEPT ![t] = "failed"]
    /\ is_running' = FALSE
    /\ UNCHANGED generation
    /\ UNCHANGED gateVars
    /\ UNCHANGED loopVars
    /\ UNCHANGED auxVars
    /\ UNCHANGED schedVars

\* run_generation, the handler: a thread is created and started, whatever
\* is_running says.
RunGenerationStart(g) ==
    /\ generation[g] = "none"
    /\ generation' = [generation EXCEPT ![g] = "started"]
    /\ UNCHANGED <<is_running, automation>>
    /\ UNCHANGED gateVars
    /\ UNCHANGED loopVars
    /\ UNCHANGED auxVars
    /\ UNCHANGED schedVars

\* run_in_thread up to pipeline.run_daily().
GenerationThreadBegin(g) ==
    /\ generation[g] = "started"
    /\ generation' = [generation EXCEPT ![g] = "running"]
    /\ is_running' = TRUE
    /\ UNCHANGED automation
    /\ UNCHANGED gateVars
    /\ UNCHANGED loopVars
    /\ UNCHANGED auxVars
    /\ UNCHANGED schedVars

\* run_in_thread from pipeline.run_daily() to the "finally".
GenerationThreadEnd(g, feed, made) ==
    LET new == NewVideos(feed, processed_videos_file)
    IN  /\ generation[g] = "running"
        /\ made \subseteq new
        /\ generation' = [generation EXCEPT ![g] = "none"]
        /\ is_running' = FALSE
        /\ files' = Organized(files, made)
        /\ processed_videos_file' = processed_videos_file \cup new
        /\ UNCHANGED <<enable_auto_posting, clips_queue, clips_queue_file,
                       processed_videos, cycle, posted, dropped, automation>>
        /\ UNCHANGED gateVars
        /\ UNCHANGED auxVars
        /\ UNCHANGED schedVars

\* The dashboard alone, nothing started yet.
InitThreads ==
    /\ FreshDirectory
    /\ is_running = FALSE
    /\ automation = [l \in Loops |-> "none"]
    /\ generation = [g \in GenThreads |-> "none"]

NextThreads ==
    \/ \E t \in DashLoops : StartAutomation(t)
    \/ \E t \in DashLoops : AutomationThreadRun(t)
    \/ \E t \in DashLoops : AutomationThreadFails(t)
    \/ StopAutomation
    \/ \E g \in GenThreads : RunGenerationStart(g)
    \/ \E g \in GenThreads : GenerationThreadBegin(g)
    \/ \E g \in GenThreads, feed \in SUBSET Videos, made \in SUBSET Videos :
          GenerationThreadEnd(g, feed, made)

SpecThreads == InitThreads /\ [][NextThreads]_vars

\* ------------------------------------------ the dashboard's threads: claims
\* C13: at most one thread started by the dashboard is at work at a time,
\* two automation loops never run together, and is_running is set whenever
\* an automation loop thread is running.
C13_one_background_worker ==
    LET loops == {t \in DashLoops : automation[t] = "running"}
        gens == {g \in GenThreads : generation[g] = "running"}
    IN  /\ Cardinality(loops) + Cardinality(gens) <= 1
        /\ loops # {} => is_running

\* ------------------------------------- loop and dashboard together: claims
\* C11: at most one post_with_safety call (its delay and its poster call
\* included) is active at any time, whether the automation loop or the
\* dashboard made it.
C11_one_post_attempt_in_flight ==
    Cardinality({p \in Posters : pws[p].pc # "idle"}) <= 1

\* C14: clips_queue.json and post_history.json are written by the automation
\* loop only: every step that changes one of the two documents is a step of
\* the loop's own handlers.
C14_documents_written_by_loop_only ==
    [][(clips_queue_file' # clips_queue_file \/ post_history_file' # post_history_file)
         => \/ HourlyPostingBegin
            \/ \E outcome \in PosterOutcomes : HourlyPostingFinish(outcome)
            \/ \E feed \in SUBSET Videos, made \in SUBSET Videos, order \in GlobOrders :
                  DailyContentGeneration(feed, made, order)]_vars

\* C15: whenever hourly_posting returns after popping a clip (missing file,
\* no accounts, missing cookies, success or failure), clips_queue.json holds
\* exactly the in-memory queue.
C15_queue_saved_after_every_cycle ==
    /\ [][(HourlyPostingBegin /\ cycle'.pops = 1 /\ cycle'.outcome # "in_flight")
            => /\ cycle'.outcome \in {"missing_video", "no_accounts", "no_cookies", "failure"}
               /\ clips_queue_file' = clips_queue']_vars
    /\ [][\A outcome \in PosterOutcomes :
            HourlyPostingFinish(outcome)
              => /\ cycle'.outcome \in {"success", "failure"}
                 /\ clips_queue_file' = clips_queue']_vars

\* A cycle posted its clip and the clip is gone from clips_queue.json too.
C15_witness ==
    /\ cycle.outcome = "success" /\ cycle.pops = 1
    /\ clips_queue_file = clips_queue
    /\ ~InQueue(clips_queue_file, cycle.clip.video_path)
    /\ clips_queue # <<>>

\* C16: a cycle that finds no account configured for the popped clip's
\* platform makes no post attempt and puts the clip back where the next
\* posting cycle takes it: the next cycle's clip is that same clip.
C16_unposted_clip_is_next ==
    /\ [](cycle.outcome = "no_accounts" => cycle.pws_calls = 0)
    /\ [][(cycle.outcome = "no_accounts" /\ HourlyPostingBegin)
            => cycle'.clip = cycle.clip]_vars

\* No account is configured for the platform: the key is absent from
\* accounts.json or its list is empty.
NoAccountsFor(platform) == platform \notin DOMAIN accounts \/ accounts[platform] = <<>>

C19_io_failure_is_swallowed ==
    [][(\/ \E written \in CutDocument(clips_queue_file, <<>>) :
              HourlyPostingSaveCut(written, "failed")
        \/ \E outcome \in PosterOutcomes, written \in CutDocument(clips_queue_file, <<>>) :
              HourlyPostingFinishSaveCut(outcome, written, "failed")
        \/ \E written \in CutDocument(post_history_file, EmptyDict) :
              HistorySaveCut(written, "failed")
        \/ \E feed \in SUBSET Videos, made \in SUBSET Videos, order \in GlobOrders,
              written \in CutDocument(clips_queue_file, <<>>) :
              DailyContentGenerationSaveCut(feed, made, order, written, "failed"))
       => LoopAlive']_vars

\* The video paths that are in one of two queues only.
QueueDifference(q1, q2) ==
    LET paths(q) == {q[i].video_path : i \in 1..Len(q)}
    IN  (paths(q1) \ paths(q2)) \cup (paths(q2) \ paths(q1))

\* The (account, date) counters that read differently in two histories.
HistoryDifference(h1, h2) ==
    {ad \in KeysOf(h1, h2) \X Dates : CountOf(h1, ad[1], ad[2]) # CountOf(h2, ad[1], ad[2])}

\* C20: when the automation process is restarted after a crash, the queue
\* loaded from clips_queue.json differs from the queue the process held when
\* it died by at most one clip, and the loaded post history differs from the
\* one it held by at most one increment of one counter.
C20_crash_loses_one_change ==
    [][\A l \in Loops :
         (automation[l] = "killed" /\ Restart(l))
         => /\ Cardinality(QueueDifference(clips_queue, clips_queue')) <= 1
            /\ LET h == post_history[LoopPoster]
                   h2 == post_history'[LoopPoster]
               IN  /\ Cardinality(HistoryDifference(h, h2)) <= 1
                   /\ \A ad \in HistoryDifference(h, h2) :
                         CountOf(h, ad[1], ad[2]) = CountOf(h2, ad[1], ad[2]) + 1]_vars

\* ------------------------------------------- the queue over time: claims
NoDuplicatePaths(q) ==
    \A i, j \in 1..Len(q) : q[i].video_path = q[j].video_path => i = j

\* C22: daily_content_generation appends a clip only when no queue entry
\* carries its video_path, it leaves the entries that were queued where they
\* were, and under any interleaving of generation runs and posting cycles no
\* two queue entries share a video_path.
C22_generation_appends_only_new ==
    /\ []NoDuplicatePaths(clips_queue)
    /\ [][\A feed \in SUBSET Videos, made \in SUBSET Videos, order \in GlobOrders :
            DailyContentGeneration(feed, made, order) =>
              /\ Len(clips_queue') >= Len(clips_queue)
              /\ SubSeq(clips_queue', 1, Len(clips_queue)) = clips_queue
              /\ \A i \in (Len(clips_queue) + 1)..Len(clips_queue') :
                    ~InQueue(clips_queue, clips_queue'[i].video_path)]_vars

\* A generation run of the second date found the queue holding a clip of the
\* first date, left it at the head and appended one clip behind it.
C22_witness ==
    /\ Len(clips_queue) = 2
    /\ clips_queue[1].added_at = 1 /\ clips_queue[2].added_at = 2
    /\ clips_queue[1].video_path # clips_queue[2].video_path
    /\ clips_queue[2].video_path \in files /\ clips_queue[1].video_path \in files

\* ------------------------------------------ posting cycles that keep firing
\* The loop on what earlier runs left behind, with its two jobs.
NextCycleGen ==
    \/ HourlyPostingBegin
    \/ \E outcome \in PosterOutcomes : HourlyPostingFinish(outcome)
    \/ \E feed \in SUBSET Videos, made \in SUBSET Videos, order \in GlobOrders :
          DailyContentGeneration(feed, made, order)

\* The scheduler keeps calling hourly_posting (every pending posting job
\* comes due), and a post_with_safety call that sleeps returns.
SpecCycleFair ==
    /\ InitCycle
    /\ [][NextCycleGen]_vars
    /\ WF_vars(HourlyPostingBegin)
    /\ WF_vars(\E outcome \in PosterOutcomes : HourlyPostingFinish(outcome))

\* The last firing popped the clip of this path.
Attempted(path) == cycle.pops = 1 /\ cycle.clip.video_path = path

\* C24: with posting enabled, a clip whose attempt did not succeed goes back
\* into the queue (there is no retry ceiling), and every clip that waits in
\* the queue while another clip is being attempted is itself popped later,
\* whatever the other clips' attempts do.
C24_failed_clips_recirculate ==
    /\ \A path \in StoredPaths :
          (enable_auto_posting /\ InQueue(clips_queue, path) /\ ~Attempted(path))
             ~> Attempted(path)
    /\ [][\A outcome \in PosterOutcomes :
            (HourlyPostingFinish(outcome) /\ ~ev'.ret)
               => /\ InQueue(clips_queue', cycle.clip.video_path)
                  /\ Len(clips_queue') = Len(cycle.before)]_vars

\* The account reached its cap after an earlier clip of this run was posted:
\* the popped clip went to the tail, and the clip now at the head waits for
\* its turn.
C24_witness ==
    /\ enable_auto_posting
    /\ cycle.outcome = "failure" /\ cycle.pws_calls = 1 /\ ~ev.delay
    /\ posted # {}
    /\ Len(clips_queue) >= 2
    /\ clips_queue[Len(clips_queue)] = cycle.clip
    /\ ~Attempted(clips_queue[1].video_path)

\* ------------------------------------------- the daily cap and the dashboard
\* The loop and the dashboard's manual-post endpoint on a directory an earlier
\* run left behind, with the database either the local file or Firestore.
FirebaseEnvironment == [DefaultEnvironment EXCEPT !.use_firebase = TRUE, !.firebase_ok = TRUE]

InitManual ==
    /\ StoredDirectory
    /\ enable_auto_posting
    /\ files = StoredPaths
    /\ CliLoopStarted
    /\ \E env \in {DefaultEnvironment, FirebaseEnvironment} : DatabaseAt(env)
    /\ OthersImported

NextManual ==
    \/ HourlyPostingBegin
    \/ \E outcome \in PosterOutcomes : HourlyPostingFinish(outcome)
    \/ \E d \in Dash, platform \in {"tiktok", "instagram"} : ManualPostBegin(d, platform)
    \/ \E d \in Dash, outcome \in PosterOutcomes : ManualPostFinish(d, outcome)

SpecManual == InitManual /\ [][NextManual]_vars

\* The account a post on platform is made from has used up today's posts.
CapReached(h, platform, account) == ~should_post(h, AccountId(platform, account), today)

FailedPosts(t) == {i \in 1..Len(t.posts) : ~t.posts[i].success}

\* C23: when the account's daily cap is reached no post is attempted, the
\* clip stays queued, and no failed post is recorded for it - neither by the
\* loop nor by the dashboard's manual-post endpoint.
C23_cap_reached_records_no_failure ==
    /\ [][(HourlyPostingBegin /\ cycle'.pws_calls = 1
             /\ CapReached(post_history[LoopPoster], cycle'.clip.platform, cycle'.account))
          => /\ pws'[LoopPoster].pc = "idle"
             /\ ~ev'.invoked
             /\ InQueue(clips_queue', cycle'.clip.video_path)
             /\ store' = store]_vars
    /\ [][\A d \in Dash :
            (ManualPostBegin(d, "tiktok")
               /\ CapReached(post_history_file, "tiktok", accounts["tiktok"][1]))
            => /\ pws'[d].pc = "idle"
               /\ ~ev'.invoked
               /\ \A b \in DOMAIN store :
                     /\ FailedPosts(store'[b]) = FailedPosts(store[b])
                     /\ \A i \in 1..Len(store[b].clips) :
                           store[b].clips[i].status = "pending"
                              => store'[b].clips[i].status = "pending"]_vars

\* ------------------------------------------------- the database: the harness
\* Callers of the five mutating operations, through each of the three
\* modules, under every environment, on stores that start as created.
InitDb ==
    /\ NothingRuns
    /\ environ \in Environments
    /\ store = FreshStore
    /\ db_call = NoDbCall
    /\ manual = [d \in Dash |-> 0]
    /\ OthersImported

DbRows(s) == \A b \in DOMAIN s : Len(s[b].clips) <= MaxRows /\ Len(s[b].posts) <= MaxRows

\* One call c made through module; fail is the request of the call that the
\* remote service answers with an error (0: none; a local file has none).
DbCall(module, c, fail) ==
    LET r == DbApply(module, environ, store, c, fail)
    IN  /\ fail # 0 => Selects(module, environ) # "sqlite"
        /\ DbRows(r.store)
        /\ store' = r.store
        /\ db_call' = [module |-> module, call |-> c, fail |-> fail,
                       raised |-> r.raised, sent |-> r.sent]
        /\ UNCHANGED <<environ, manual>>
        /\ UNCHANGED <<gateVars, loopVars, ctlVars, rotatorVars, jsonVars, schedVars>>

AddClip(module, fail) ==
    /\ fail < 2
    /\ \E filename \in Videos : DbCall(module, add_clip(filename, "tiktok"), fail)

\* main.py marks the clip it registered as 'ready' after the upload.
UpdateClipStatus(module, fail) ==
    /\ fail < 2
    /\ DbCall(module, update_clip_status(1, "ready"), fail)

AddLog(module, fail) ==
    /\ fail < 2
    /\ DbCall(module, add_log("Automation started"), fail)

SetSetting(module, fail) ==
    /\ fail < 2
    /\ DbCall(module, set_setting("auto_posting_enabled", "1"), fail)

\* record_post makes two requests: the post row, then the clip's status.
RecordPost(module, fail) ==
    /\ fail <= 2
    /\ \E success \in BOOLEAN :
          DbCall(module, db_record_post(1, "tiktok", acct1.username, success,
                                        IF success THEN "" ELSE "Upload failed"), fail)

NextDb ==
    \E module \in DbModules, fail \in 0..2 :
        \/ AddClip(module, fail)
        \/ UpdateClipStatus(module, fail)
        \/ AddLog(module, fail)
        \/ SetSetting(module, fail)
        \/ RecordPost(module, fail)

SpecDb == InitDb /\ [][NextDb]_vars

\* ------------------------------------------------- the database: the claims
Adapters == {"firebase_db", "cloud_db"}

\* The store the documented order of preference names.
Preferred(env) ==
    IF env.use_firebase /\ env.firebase_ok THEN "firebase"
    ELSE IF env.use_cloud_db /\ env.supabase_ok THEN "supabase"
    ELSE "sqlite"

\* C25: a database adapter uses Firebase when it is enabled, installed and
\* initialises, otherwise Supabase when it is enabled and initialises,
\* otherwise SQLite, and sends every operation to that store only.
C25_adapter_precedence ==
    db_call.module \in Adapters => db_call.sent = {Preferred(environ)}

\* C26: when the preferred store fails in the middle of a call, the call
\* falls back to the next store without an error reaching the caller.
C26_failure_falls_back_silently ==
    (db_call.module # "" /\ db_call.fail # 0) => ~db_call.raised

SameRows(s, t) ==
    \A b \in DOMAIN s : /\ s[b].clips = t[b].clips
                        /\ s[b].posts = t[b].posts
                        /\ s[b].settings = t[b].settings

\* C27: every mutating operation is idempotent: the same call made a second
\* time leaves the clips, statuses, settings and post rows as the first call
\* left them.
C27_mutations_idempotent ==
    [][\A module \in DbModules, fail \in 0..2 :
         (/\ \/ AddClip(module, fail)
             \/ UpdateClipStatus(module, fail)
             \/ AddLog(module, fail)
             \/ SetSetting(module, fail)
             \/ RecordPost(module, fail)
          /\ ~db_call.raised
          /\ ~db_call'.raised
          /\ db_call'.module = db_call.module
          /\ db_call'.call = db_call.call)
         => SameRows(store', store)]_vars

\* C30: on SQLite record_post completes without an error, adds exactly one
\* post row and sets the clip's status to posted or failed by the outcome;
\* the nested status update never blocks it.
C30_sqlite_record_post_completes ==
    [][\A module \in DbModules :
         (RecordPost(module, 0) /\ Selects(module, environ) = "sqlite"
            /\ 1 \in DOMAIN store.sqlite.clips)
         => /\ ~db_call'.raised
            /\ Len(store'.sqlite.posts) = Len(store.sqlite.posts) + 1
            /\ store'.sqlite.clips[1].status = StatusAfterPost(db_call'.call.success)]_vars

\* ------------------------------------------------- the link rotator: get_link
LinkUrls == {"https://whop.com/a", "https://whop.com/b"}

Niches == {"general", "trading"}

\* datetime.now().date().isoformat()
IsoDate(d) == "2025-01-0" \o ToString(d)

\* affiliate_links.json as add_link leaves it: up to two links, no URL twice;
\* a link is switched off by editing its 'enabled' field.
LinkConfigs ==
    {<<>>}
    \cup {<<[url |-> u, niche |-> n, weight |-> 1, enabled |-> e]>> :
            u \in LinkUrls, n \in Niches, e \in BOOLEAN}
    \cup {<<[url |-> "https://whop.com/a", niche |-> n[1], weight |-> w, enabled |-> e[1]],
            [url |-> "https://whop.com/b", niche |-> n[2], weight |-> 1, enabled |-> e[2]]>> :
            n \in [1..2 -> Niches], e \in [1..2 -> BOOLEAN], w \in 1..2}

\* usage_history is a dict in insertion order, date -> list of URLs: a
\* sequence of [date, urls] items.  list(usage_history.keys())[-5:]
RecentLinks(h) == {h[i].date : i \in {j \in 1..Len(h) : j > Len(h) - 5}}

\* The links get_link draws from.
Candidates(ls, h, niche, avoid_recent) ==
    LET enabled_links == SelectSeq(ls, LAMBDA l : l.enabled)
        of_niche == SelectSeq(enabled_links, LAMBDA l : l.niche = niche)
        niche_links == IF of_niche = <<>> THEN enabled_links ELSE of_niche
        recent_links == RecentLinks(h)
        available_links == SelectSeq(niche_links, LAMBDA l : l.url \notin recent_links)
    IN  IF avoid_recent /\ h # <<>> /\ available_links # <<>> THEN available_links
        ELSE niche_links

\* usage_history[today].append(url), with the key created when missing.
RecordUsage(h, date, url) ==
    IF \E i \in 1..Len(h) : h[i].date = date
    THEN [i \in 1..Len(h) |-> IF h[i].date = date
                              THEN [h[i] EXCEPT !.urls = Append(@, url)] ELSE h[i]]
    ELSE Append(h, [date |-> date, urls |-> <<url>>])

\* One get_link call; link_calls keeps what each call was given and returned.
\* random.choices draws a link of positive weight.
GetLink(niche, avoid_recent) ==
    LET c == Candidates(links, usage_history, niche, avoid_recent)
        call(ret, none) == [niche |-> niche, avoid_recent |-> avoid_recent,
                            ret |-> ret, none |-> none]
    IN  /\ Len(link_calls) < MaxLinkCalls
        /\ IF SelectSeq(links, LAMBDA l : l.enabled) = <<>>
           THEN /\ link_calls' = Append(link_calls, call("", TRUE))
                /\ UNCHANGED usage_history
           ELSE \E i \in 1..Len(c) :
                  /\ c[i].weight > 0
                  /\ usage_history' = RecordUsage(usage_history, IsoDate(today), c[i].url)
                  /\ link_calls' = Append(link_calls, call(c[i].url, FALSE))
        /\ UNCHANGED <<links, dbVars, jsonVars, schedVars>>
        /\ UNCHANGED <<gateVars, loopVars, ctlVars>>

InitLinks ==
    /\ NothingRuns
    /\ DatabaseAt(DefaultEnvironment)
    /\ links \in LinkConfigs \cup {DefaultLinks}
    /\ usage_history = <<>>
    /\ link_calls = <<>>
    /\ document = NoDocument
    /\ reloaded = NotLoaded
    /\ sched = NoSchedule

NextLinks ==
    \/ \E niche \in Niches, avoid_recent \in BOOLEAN : GetLink(niche, avoid_recent)
    \/ Midnight

SpecLinks == InitLinks /\ [][NextLinks]_vars

\* The URLs the last five calls returned.
LastReturned(calls) ==
    {calls[i].ret : i \in {j \in 1..Len(calls) : j > Len(calls) - 5 /\ ~calls[j].none}}

EnabledUrls(ls, niche) ==
    {ls[i].url : i \in {j \in 1..Len(ls) : ls[j].enabled /\ ls[j].niche = niche}}

\* C29: with avoid_recent, get_link returns no URL that one of the last five
\* calls returned while another enabled link of the requested niche is there;
\* it never returns a disabled link, and it returns None exactly when no
\* link is enabled.
C29_get_link_avoids_recent ==
    /\ \A i \in 1..Len(link_calls) :
          /\ link_calls[i].none <=> (\A j \in 1..Len(links) : ~links[j].enabled)
          /\ ~link_calls[i].none =>
                \E j \in 1..Len(links) : links[j].enabled /\ links[j].url = link_calls[i].ret
    /\ [][\A niche \in Niches :
            (GetLink(niche, TRUE) /\ EnabledUrls(links, niche) \ LastReturned(link_calls) # {})
            => link_calls'[Len(link_calls')].ret \notin LastReturned(link_calls)]_vars

\* --------------------------------------------- clips_queue.json as JSON text
\* Text is a sequence of code points.  The queue json sees is a list of
\* dicts from str to str: a sequence of clips, a clip a sequence of
\* <<key, value>> pairs in insertion order, a string its code points.
Ch == [quote |-> 34, backslash |-> 92, newline |-> 10, space |-> 32, comma |-> 44,
       colon |-> 58, lbracket |-> 91, rbracket |-> 93, lbrace |-> 123, rbrace |-> 125,
       u |-> 117, n |-> 110, fire |-> 128293]

\* The keys of a clip dict, in the order daily_content_generation writes
\* them: 'video_path', 'caption', 'platform', 'added_at'.
ClipKeys == << <<118, 105, 100, 101, 111, 95, 112, 97, 116, 104>>,
               <<99, 97, 112, 116, 105, 111, 110>>,
               <<112, 108, 97, 116, 102, 111, 114, 109>>,
               <<97, 100, 100, 101, 100, 95, 97, 116>> >>

\* Characters a caption file can hold: a letter, a double quote, a backslash,
\* a line break, and the emoji of the default caption.
CaptionChars == {Ch.n, Ch.quote, Ch.backslash, Ch.newline, Ch.fire}

Captions == UNION {[1..k -> CaptionChars] : k \in 0..MaxCaption}

\* str(video_file): "a.mp4", "b.mp4"
JsonPaths == {<<97, 46, 109, 112, 52>>, <<98, 46, 109, 112, 52>>}

\* 'tiktok'
JsonPlatform == <<116, 105, 107, 116, 111, 107>>

\* datetime.now().isoformat(), shortened to the time of day "02:00"
JsonAddedAt == <<48, 50, 58, 48, 48>>

JsonClip(path, caption) ==
    << <<ClipKeys[1], path>>, <<ClipKeys[2], caption>>,
       <<ClipKeys[3], JsonPlatform>>, <<ClipKeys[4], JsonAddedAt>> >>

RECURSIVE Concat(_)
Concat(ss) == IF ss = <<>> THEN <<>> ELSE Head(ss) \o Concat(Tail(ss))

HexDigit(d) == IF d < 10 THEN 48 + d ELSE 87 + d

Hex4(c) == <<HexDigit(c \div 4096), HexDigit((c \div 256) % 16),
             HexDigit((c \div 16) % 16), HexDigit(c % 16)>>

UEscape(c) == <<Ch.backslash, Ch.u>> \o Hex4(c)

\* EscapeChar with the backslash written as it is.
EscapeChar_backslash_raw(c) ==
    CASE c = Ch.quote -> <<Ch.backslash, Ch.quote>>
      [] c = Ch.newline -> <<Ch.backslash, Ch.n>>
      [] c # Ch.quote /\ c # Ch.newline /\ c >= 32 /\ c <= 126 -> <<c>>
      [] c # Ch.newline /\ (c < 32 \/ c > 126) /\ c < 65536 -> UEscape(c)
      [] c >= 65536 -> UEscape(55296 + ((c - 65536) \div 1024))
                       \o UEscape(56320 + ((c - 65536) % 1024))

\* json.dump with ensure_ascii (the default): what one character of a string
\* is written as.  Quote, backslash and line break get their two-character
\* escapes, other characters outside space..~ a \uXXXX escape, and a
\* character above U+FFFF a surrogate pair of two such escapes.
EscapeChar(c) ==
    CASE c = Ch.quote -> <<Ch.backslash, Ch.quote>>
      [] c = Ch.backslash -> <<Ch.backslash, Ch.backslash>>
      [] c = Ch.newline -> <<Ch.backslash, Ch.n>>
      [] c # Ch.quote /\ c # Ch.backslash /\ c >= 32 /\ c <= 126 -> <<c>>
      [] c # Ch.newline /\ (c < 32 \/ c > 126) /\ c < 65536 -> UEscape(c)
      [] c >= 65536 -> UEscape(55296 + ((c - 65536) \div 1024))
                       \o UEscape(56320 + ((c - 65536) % 1024))

DumpString(str) ==
    <<Ch.quote>> \o Concat([i \in 1..Len(str) |-> EscapeChar(str[i])]) \o <<Ch.quote>>

\* The line break and indentation json writes with indent=2.
NewlineIndent(level) == <<Ch.newline>> \o [i \in 1..(2 * level) |-> Ch.space]

\* items joined by "," and a line break
Joined(items, level) ==
    Concat([i \in 1..Len(items) |->
              (IF i = 1 THEN <<>> ELSE <<Ch.comma>>) \o NewlineIndent(level) \o items[i]])

DumpClip(clip, level) ==
    IF clip = <<>> THEN <<Ch.lbrace, Ch.rbrace>>
    ELSE <<Ch.lbrace>>
         \o Joined([i \in 1..Len(clip) |->
                      DumpString(clip[i][1]) \o <<Ch.colon, Ch.space>>
                      \o DumpString(clip[i][2])], level + 1)
         \o NewlineIndent(level) \o <<Ch.rbrace>>

\* json.dump(self.clips_queue, f, indent=2)
Dump(queue) ==
    IF queue = <<>> THEN <<Ch.lbracket, Ch.rbracket>>
    ELSE <<Ch.lbracket>>
         \o Joined([i \in 1..Len(queue) |-> DumpClip(queue[i], 1)], 1)
         \o NewlineIndent(0) \o <<Ch.rbracket>>

\* ---- json.load
\* A parse result: the value and the index of the next character, or an
\* error (json.JSONDecodeError).
Parsed(value, next) == [ok |-> TRUE, value |-> value, next |-> next]

ParseError == [ok |-> FALSE, value |-> <<>>, next |-> 0]

At(s, i) == IF i \in 1..Len(s) THEN s[i] ELSE 0

HexValue(c) ==
    IF c >= 48 /\ c <= 57 THEN c - 48
    ELSE IF c >= 97 /\ c <= 102 THEN c - 87
    ELSE IF c >= 65 /\ c <= 70 THEN c - 55
    ELSE -1

\* The four hex digits at s[i..i+3], or -1.
Hex4Value(s, i) ==
    LET d == [k \in 0..3 |-> HexValue(At(s, i + k))]
    IN  IF \E k \in 0..3 : d[k] < 0 THEN -1
        ELSE d[0] * 4096 + d[1] * 256 + d[2] * 16 + d[3]

IsHighSurrogate(c) == c >= 55296 /\ c <= 56319

IsLowSurrogate(c) == c >= 56320 /\ c <= 57343

\* The escapes of one letter.
SimpleEscape(c) ==
    CASE c = Ch.quote -> Ch.quote
      [] c = Ch.backslash -> Ch.backslash
      [] c = 47 -> 47
      [] c = 98 -> 8
      [] c = 102 -> 12
      [] c = Ch.n -> Ch.newline
      [] c = 114 -> 13
      [] c = 116 -> 9
      [] OTHER -> -1

\* py_scanstring from the character after the opening quote.
RECURSIVE ScanString(_, _, _)
ScanString(s, i, acc) ==
    LET c == At(s, i)
    IN  IF i > Len(s) \/ c < 32 THEN ParseError
        ELSE IF c = Ch.quote THEN Parsed(acc, i + 1)
        ELSE IF c # Ch.backslash THEN ScanString(s, i + 1, Append(acc, c))
        ELSE IF At(s, i + 1) # Ch.u
        THEN IF SimpleEscape(At(s, i + 1)) < 0 THEN ParseError
             ELSE ScanString(s, i + 2, Append(acc, SimpleEscape(At(s, i + 1))))
        ELSE LET uni == Hex4Value(s, i + 2)
                 uni2 == IF At(s, i + 6) = Ch.backslash /\ At(s, i + 7) = Ch.u
                         THEN Hex4Value(s, i + 8) ELSE -1
             IN  IF uni < 0 THEN ParseError
                 ELSE IF IsHighSurrogate(uni) /\ IsLowSurrogate(uni2)
                 THEN ScanString(s, i + 12,
                                 Append(acc, 65536 + (uni - 55296) * 1024 + (uni2 - 56320)))
                 ELSE ScanString(s, i + 6, Append(acc, uni))

RECURSIVE SkipWs(_, _)
SkipWs(s, i) == IF At(s, i) \in {32, 10, 13, 9} THEN SkipWs(s, i + 1) ELSE i

RECURSIVE ParseValue(_, _)
RECURSIVE ParseArray(_, _, _)
RECURSIVE ParseObject(_, _, _)

\* JSONObject after "{" or ",": a key, ":", a value, then "," or "}".
ParseObject(s, i, acc) ==
    LET k == SkipWs(s, i)
    IN  IF At(s, k) # Ch.quote THEN ParseError
        ELSE LET key == ScanString(s, k + 1, <<>>)
             IN  IF ~key.ok \/ At(s, SkipWs(s, key.next)) # Ch.colon THEN ParseError
                 ELSE LET v == ParseValue(s, SkipWs(s, key.next) + 1)
                      IN  IF ~v.ok THEN ParseError
                          ELSE LET e == SkipWs(s, v.next)
                                   pairs == Append(acc, <<key.value, v.value>>)
                               IN  IF At(s, e) = Ch.rbrace THEN Parsed(pairs, e + 1)
                                   ELSE IF At(s, e) = Ch.comma
                                   THEN ParseObject(s, e + 1, pairs)
                                   ELSE ParseError

\* JSONArray after "[" or ",": a value, then "," or "]".
ParseArray(s, i, acc) ==
    LET v == ParseValue(s, i)
    IN  IF ~v.ok THEN ParseError
        ELSE LET e == SkipWs(s, v.next)
                 items == Append(acc, v.value)
             IN  IF At(s, e) = Ch.rbracket THEN Parsed(items, e + 1)
                 ELSE IF At(s, e) = Ch.comma THEN ParseArray(s, e + 1, items)
                 ELSE ParseError

\* scan_once: a string, an object or an array (the queue file holds no
\* number and no literal).
ParseValue(s, i) ==
    LET k == SkipWs(s, i)
        c == At(s, k)
    IN  IF c = Ch.quote THEN ScanString(s, k + 1, <<>>)
        ELSE IF c = Ch.lbrace
        THEN IF At(s, SkipWs(s, k + 1)) = Ch.rbrace
             THEN Parsed(<<>>, SkipWs(s, k + 1) + 1)
             ELSE ParseObject(s, k + 1, <<>>)
        ELSE IF c = Ch.lbracket
        THEN IF At(s, SkipWs(s, k + 1)) = Ch.rbracket
             THEN Parsed(<<>>, SkipWs(s, k + 1) + 1)
             ELSE ParseArray(s, k + 1, <<>>)
        ELSE ParseError

\* json.loads: one value, then nothing but white space.
Loads(s) ==
    LET v == ParseValue(s, 1)
    IN  IF v.ok /\ SkipWs(s, v.next) = Len(s) + 1 THEN v ELSE ParseError

\* _load_clips_queue: [] when the file is missing or does not parse.
LoadQueue(doc) ==
    IF doc.exists /\ Loads(doc.text).ok THEN Loads(doc.text).value ELSE <<>>

\* ---- the three steps
\* self.clips_queue.append(clip) / extend(new_clips)
AppendClip(path, caption) ==
    /\ Len(clips_queue) < MaxJsonQueue
    /\ clips_queue' = Append(clips_queue, JsonClip(path, caption))
    /\ document' = [document EXCEPT !.current = FALSE]
    /\ reloaded' = NotLoaded
    /\ UNCHANGED <<enable_auto_posting, clips_queue_file, files, processed_videos,
                   processed_videos_file, cycle, posted, dropped>>
    /\ UNCHANGED <<gateVars, ctlVars, dbVars, rotatorVars, schedVars>>

SaveClipsQueue ==
    /\ document' = [exists |-> TRUE, text |-> Dump(clips_queue), current |-> TRUE]
    /\ reloaded' = NotLoaded
    /\ UNCHANGED <<gateVars, loopVars, ctlVars, dbVars, rotatorVars, schedVars>>

LoadClipsQueue ==
    /\ ~reloaded.loaded
    /\ reloaded' = [loaded |-> TRUE, value |-> LoadQueue(document)]
    /\ UNCHANGED document
    /\ UNCHANGED <<gateVars, loopVars, ctlVars, dbVars, rotatorVars, schedVars>>

InitJson ==
    /\ NothingRuns
    /\ DatabaseAt(DefaultEnvironment)
    /\ OthersImported

NextJson ==
    \/ \E path \in JsonPaths, caption \in Captions : AppendClip(path, caption)
    \/ SaveClipsQueue
    \/ LoadClipsQueue

SpecJson == InitJson /\ [][NextJson]_vars

\* C28: appending a clip, saving with _save_clips_queue and reloading with
\* _load_clips_queue yields a list equal to the in-memory queue, element by
\* element and in the same order.
C28_queue_round_trip ==
    (reloaded.loaded /\ document.current) => reloaded.value = clips_queue

\* Two clips were appended, saved and reloaded; one caption holds a
\* backslash followed by a letter, the other the emoji and a quote.
C28_witness ==
    /\ reloaded.loaded
    /\ document.current
    /\ Len(clips_queue) = 2
    /\ clips_queue[1][2][2] = <<Ch.backslash, Ch.n>>
    /\ clips_queue[2][2][2] = <<Ch.fire, Ch.quote>>

\* ------------------------------------------------------ run(): the scheduler
\* Time is in minutes since run() was entered.  The schedule package keeps a
\* list of jobs; run_pending() collects the jobs that are due, sorts them by
\* next_run and runs them one after the other from that list, whatever
\* clear() does to the job list meanwhile.

\* random.uniform(2, 4) hours: both ends and the middle.
DelayMinutes == {2 * 60, 3 * 60, 4 * 60}

\* random.randint(15, 180) minutes of post_with_safety: both ends.
PwsDelayMinutes == {15, 180}

\* How long the pipeline of daily_content_generation takes: nothing new in
\* the feeds, or long videos to download, transcribe and render.
GenerationMinutes == {10, 150}

\* Minutes from the start to the next 02:00: started at 01:59, at 01:58 or
\* at 00:30 (no date change falls within Horizon then).
GenerationStarts == {1, 2, 90}

GenerationJob(next_run) == [kind |-> "generation", next_run |-> next_run, interval |-> 24 * 60]

PostingJob(now, interval) == [kind |-> "posting", next_run |-> now + interval,
                              interval |-> interval]

PostingJobs(jobs) == SelectSeq(jobs, LAMBDA j : j.kind = "posting")

\* schedule_next_posting at minute now with delay_hours drawn as d minutes:
\* clear('posting'), then a new job tagged 'posting'.
ScheduleNextPosting(jobs, now, d) ==
    SelectSeq(jobs, LAMBDA j : j.kind # "posting") \o <<PostingJob(now, d)>>

\* sorted(): by next_run, jobs of equal next_run in list order.
RECURSIVE SortedJobs(_)
SortedJobs(js) ==
    IF js = <<>> THEN <<>>
    ELSE LET first == CHOOSE i \in 1..Len(js) :
                        \A k \in 1..Len(js) :
                           \/ js[i].next_run < js[k].next_run
                           \/ js[i].next_run = js[k].next_run /\ i <= k
         IN  <<js[first]>> \o SortedJobs([k \in 1..(Len(js) - 1) |->
                                            IF k < first THEN js[k] ELSE js[k + 1]])

Due(jobs, now) == SelectSeq(jobs, LAMBDA j : j.next_run <= now)

\* The job a run re-schedules: Job.run sets the next_run of the job object,
\* which changes the list entry only while the job is still in the list.
Rescheduled(jobs, job, next_run) ==
    [i \in 1..Len(jobs) |-> IF jobs[i] = job THEN [job EXCEPT !.next_run = next_run]
                            ELSE jobs[i]]

\* The next 02:00 after minute now, for the job that was due at minute at.
RECURSIVE NextDay(_, _)
NextDay(at, now) == IF at > now THEN at ELSE NextDay(at + 24 * 60, now)

\* run() up to the main loop: the daily job, the first posting job, and the
\* two-minute posting job when clips are waiting and posting is on.
Run(g, d) ==
    /\ LoopAlive
    /\ sched.running = "none"
    /\ sched' = [sched EXCEPT
                   !.jobs = <<GenerationJob(g), PostingJob(0, d)>>
                            \o (IF clips_queue # <<>> /\ enable_auto_posting
                                THEN <<PostingJob(0, first_post_minutes)>> ELSE <<>>),
                   !.running = "loop"]
    /\ UNCHANGED <<gateVars, loopVars, ctlVars, auxVars>>

\* schedule.run_pending(): the due jobs, sorted, before any of them runs.
RunPending ==
    /\ sched.running = "loop"
    /\ sched' = [sched EXCEPT !.runnable = SortedJobs(Due(sched.jobs, sched.now)),
                              !.running = "pending"]
    /\ UNCHANGED <<gateVars, loopVars, ctlVars, auxVars>>

\* run_pending has run its list; time.sleep(60), and every further iteration
\* of the loop that finds no job due.
Sleep ==
    /\ sched.running = "pending"
    /\ sched.runnable = <<>>
    /\ LET soonest == SortedJobs(sched.jobs)[1].next_run
           wake == IF soonest > sched.now + 1 THEN soonest ELSE sched.now + 1
       IN  /\ wake <= Horizon
           /\ sched' = [sched EXCEPT !.now = wake, !.running = "loop"]
    /\ UNCHANGED <<gateVars, loopVars, ctlVars, auxVars>>

\* The daily job runs daily_content_generation, which takes dur minutes.
RunGenerationJob(feed, made, order, dur) ==
    /\ sched.running = "pending"
    /\ sched.runnable # <<>>
    /\ Head(sched.runnable).kind = "generation"
    /\ sched.now + dur <= Horizon
    /\ daily_content_generation(feed, made, order)
    /\ sched' = [sched EXCEPT
                   !.now = @ + dur,
                   !.jobs = Rescheduled(@, Head(sched.runnable),
                                        NextDay(Head(sched.runnable).next_run,
                                                sched.now + dur)),
                   !.runnable = Tail(@)]

\* A posting job fires: post_and_reschedule calls hourly_posting, which
\* returns at once or blocks in the sleep of post_with_safety; when it has
\* returned, schedule_next_posting draws d.
PostingJobBegin(d) ==
    /\ sched.running = "pending"
    /\ sched.runnable # <<>>
    /\ Head(sched.runnable).kind = "posting"
    /\ hourly_posting_begin
    /\ LET firing == [sched EXCEPT !.last_fire = sched.now, !.fired = TRUE,
                                   !.gap = IF sched.fired THEN sched.now - sched.last_fire
                                           ELSE -1]
       IN  IF cycle'.outcome = "in_flight"
           THEN sched' = [firing EXCEPT !.running = "posting"]
           ELSE sched' = [firing EXCEPT
                            !.jobs = ScheduleNextPosting(@, sched.now, d),
                            !.runnable = Tail(@)]

\* The sleep of delay minutes is over, hourly_posting returns, and
\* schedule_next_posting draws d.
PostingJobFinish(outcome, delay, d) ==
    /\ sched.running = "posting"
    /\ sched.now + delay <= Horizon
    /\ hourly_posting_finish(outcome)
    /\ sched' = [sched EXCEPT
                   !.now = @ + delay,
                   !.jobs = ScheduleNextPosting(@, sched.now + delay, d),
                   !.runnable = Tail(@),
                   !.running = "pending"]

\* A directory an earlier run left behind, with at most one clip queued and
\* the account either unused today or at its cap; run() not yet entered.
InitSched ==
    /\ StoredDirectory
    /\ Len(clips_queue) <= 1
    /\ files = StoredPaths
    /\ post_history_file \in {EmptyDict, StoredHistory(max_posts_per_day)}
    /\ CliLoopStarted
    /\ ModulesImported

NextSched ==
    \/ \E g \in GenerationStarts, d \in DelayMinutes : Run(g, d)
    \/ RunPending
    \/ Sleep
    \/ \E feed \in SUBSET Videos, made \in SUBSET Videos, order \in GlobOrders,
          dur \in GenerationMinutes : RunGenerationJob(feed, made, order, dur)
    \/ \E d \in DelayMinutes : PostingJobBegin(d)
    \/ \E outcome \in PosterOutcomes, delay \in PwsDelayMinutes, d \in DelayMinutes :
          PostingJobFinish(outcome, delay, d)

SpecSched == InitSched /\ [][NextSched]_vars

\* C21: after every firing of the posting job exactly one posting job is
\* pending, with an interval drawn from [2, 4] hours, and no posting firing
\* begins less than 2 hours after the previous one.
C21_self_rescheduling_timer ==
    /\ (sched.fired /\ sched.running \in {"loop", "pending"})
          => /\ Len(PostingJobs(sched.jobs)) = 1
             /\ PostingJobs(sched.jobs)[1].interval >= 2 * 60
             /\ PostingJobs(sched.jobs)[1].interval <= 4 * 60
    /\ sched.gap # -1 => sched.gap >= 2 * 60

====
